---------------------------- MODULE Spec2Model ----------------------------
(***************************************************************************)
(* A model of main_az104_adapter.py: the pipeline that turns a table of    *)
(* quiz questions into the Categories / Collections / Quizzes / Questions  *)
(* / Options tables of a workbook.                                         *)
(*                                                                         *)
(* Text is a sequence of one-character strings, so that slugify, strip,    *)
(* case conversion and the regular expressions of the source act on the    *)
(* characters as the Python code does.  A cell of a DataFrame is a tagged  *)
(* value: None, NaN, a bool or a str.                                      *)
(***************************************************************************)
EXTENDS Integers, Sequences, FiniteSets, TLC

VARIABLES
    pc,            \* position of main(): which call runs next
    raw,           \* the DataFrame read from --input (before normalize_columns)
    lookupFile,    \* the content of --lookup: a dict, "unreadable", or "absent"
    template,      \* the --template workbook: sheet name -> sequence of columns
    hashOrder,     \* iteration order of the set ROLE_HINT_WORDS in this process
    df,            \* main's df after load_agent_input
    image_lookup,  \* main's image_lookup
    maps,          \* cat_map, col_map, quiz_map of build_key_maps
    cats_df, cols_df, quizzes_df,
    q_rows, o_rows,  \* the records build_questions_and_options returns
    counters,      \* its dict counters, as the loop leaves it
    correct,       \* its set 'correct', as the last pass of the loop leaves it
    schemas,       \* result of read_template_schemas
    output,        \* the workbook at --output: sheet name -> table; <<>> when not written
    runs,          \* number of the current run of the program on this input
    firstRun       \* what the first run produced (kept to compare a second run)

vars == <<pc, raw, lookupFile, template, hashOrder, df, image_lookup, maps,
          cats_df, cols_df, quizzes_df, q_rows, o_rows, counters, correct,
          schemas, output, runs, firstRun>>

-----------------------------------------------------------------------------
(* Characters *)

LowerChars == <<"a","b","c","d","e","f","g","h","i","j","k","l","m","n","o","p","q","r","s","t","u","v","w","x","y","z">>
UpperChars == <<"A","B","C","D","E","F","G","H","I","J","K","L","M","N","O","P","Q","R","S","T","U","V","W","X","Y","Z">>
DigitChars == <<"0","1","2","3","4","5","6","7","8","9">>

Range(f) == {f[i] : i \in DOMAIN f}

LowerSet == Range(LowerChars)
UpperSet == Range(UpperChars)
DigitSet == Range(DigitChars)
AlnumSet == LowerSet \cup UpperSet \cup DigitSet
WordSet  == AlnumSet \cup {"_"}
SpaceSet == {" ", "\t", "\n", "\r", "\f"}
LetterAJ == {UpperChars[i] : i \in 1..10} \cup {LowerChars[i] : i \in 1..10}

\* the printable ASCII characters in code-point order, from 32 (space);
\* "grave" stands at 96 for the grave accent, which a TLA+ string cannot hold
Ascii == <<" ","!","\"","#","$","%","&","'","(",")","*","+",",","-",".","/">>
         \o DigitChars \o <<":",";","<","=",">","?","@">> \o UpperChars
         \o <<"[","\\","]","^","_","grave">> \o LowerChars \o <<"{","|","}","~">>

UpperOf == [c \in LowerSet |-> UpperChars[CHOOSE i \in 1..26 : LowerChars[i] = c]]
LowerOf == [c \in UpperSet |-> LowerChars[CHOOSE i \in 1..26 : UpperChars[i] = c]]

ToUpper(c) == IF c \in LowerSet THEN UpperOf[c] ELSE c
ToLower(c) == IF c \in UpperSet THEN LowerOf[c] ELSE c
\* ord(c) for a printable ASCII character
Ord(c) == 31 + (CHOOSE i \in 1..95 : Ascii[i] = c)
\* chr(n) for 32 <= n <= 126
Chr(n) == Ascii[n - 31]

-----------------------------------------------------------------------------
(* str methods *)

Min(S) == CHOOSE x \in S : \A y \in S : x <= y
Max(S) == CHOOSE x \in S : \A y \in S : x >= y

Indices(s) == [i \in 1..Len(s) |-> i]

\* the elements of s at the positions idx, in order
At(s, idx) == [n \in 1..Len(idx) |-> s[idx[n]]]

\* the elements of s at the positions that satisfy Keep, in order
Pick(s, Keep(_)) == At(s, SelectSeq(Indices(s), Keep))

Upper(s) == [i \in 1..Len(s) |-> ToUpper(s[i])]
Lower(s) == [i \in 1..Len(s) |-> ToLower(s[i])]

\* s from the first to the last of the positions ink
Trim(s, ink) == IF ink = {} THEN <<>> ELSE SubSeq(s, Min(ink), Max(ink))

\* s.strip()
Strip(s) == Trim(s, {i \in 1..Len(s) : s[i] \notin SpaceSet})

\* s.strip(ch) for a single character ch
StripChar(s, ch) == Trim(s, {i \in 1..Len(s) : s[i] # ch})

\* s.title(): a letter is upper-cased after a non-letter, lower-cased after a letter
Title(s) ==
    [i \in 1..Len(s) |->
        IF i > 1 /\ s[i-1] \in LowerSet \cup UpperSet THEN ToLower(s[i]) ELSE ToUpper(s[i])]

\* the end of the run of characters of C that starts at i
RunEnd(s, C, i) == Min({j \in i..Len(s) : j = Len(s) \/ s[j+1] \notin C})

\* the runs of characters of C that start at the positions starts
RunsAt(s, C, starts) == [n \in 1..Len(starts) |-> SubSeq(s, starts[n], RunEnd(s, C, starts[n]))]

\* the maximal runs of characters of the set C, in order
\* (re.split(r"[^C]+", s) without its empty pieces; s.split() for C = non-space)
Runs(s, C) ==
    RunsAt(s, C, SelectSeq(Indices(s), LAMBDA i : s[i] \in C /\ (i = 1 \/ s[i-1] \notin C)))

\* the characters of s at the positions keep, rep for one that is not of C
Replaced(s, C, rep, keep) ==
    [n \in 1..Len(keep) |-> IF s[keep[n]] \in C THEN s[keep[n]] ELSE rep]

\* re.sub(r"[^C]+", rep, s) for a one-character rep
SubRuns(s, C, rep) ==
    Replaced(s, C, rep, SelectSeq(Indices(s), LAMBDA i : s[i] \in C \/ i = 1 \/ s[i-1] \in C))

\* re.sub(r"[^C]+", "", s)
DropNot(s, C) == SelectSeq(s, LAMBDA c : c \in C)

RECURSIVE Join(_, _)
\* sep.join(parts)
Join(parts, sep) ==
    IF Len(parts) = 0 THEN <<>>
    ELSE IF Len(parts) = 1 THEN parts[1]
    ELSE parts[1] \o sep \o Join(Tail(parts), sep)

RECURSIVE DecimalDigits(_)
\* str(n) for n >= 0
DecimalDigits(n) ==
    IF n < 10 THEN <<DigitChars[n + 1]>>
    ELSE DecimalDigits(n \div 10) \o <<DigitChars[(n % 10) + 1]>>

\* f"{n:0{w}d}": at least w digits, zero-padded on the left
ZeroPad(n, w) == [i \in 1..(w - Len(DecimalDigits(n))) |-> "0"] \o DecimalDigits(n)

\* a < b for str (code-point order)
RECURSIVE StrLess(_, _)
StrLess(a, b) ==
    IF Len(b) = 0 THEN FALSE
    ELSE IF Len(a) = 0 THEN TRUE
    ELSE IF a[1] = b[1] THEN StrLess(Tail(a), Tail(b))
    ELSE Ord(a[1]) < Ord(b[1])

\* s[i:i+len(lit)] == lit   (i is 1-based)
LitAt(lit, s, i) ==
    /\ i >= 1
    /\ i + Len(lit) - 1 <= Len(s)
    /\ \A k \in 1..Len(lit) : s[i + k - 1] = lit[k]

\* \b at the gap before position i (1..Len(s)+1)
Boundary(s, i) == (i > 1 /\ s[i-1] \in WordSet) # (i <= Len(s) /\ s[i] \in WordSet)

\* the position after the whitespace run that starts at i
SkipSpace(s, i) ==
    Min({j \in i..(Len(s) + 1) : j = Len(s) + 1 \/ s[j] \notin SpaceSet})

-----------------------------------------------------------------------------
(* Cell values and DataFrames *)

NoneV   == [t |-> "none", b |-> FALSE, s |-> <<>>]
NaN     == [t |-> "nan",  b |-> FALSE, s |-> <<>>]
Bool(b) == [t |-> "bool", b |-> b,     s |-> <<>>]
Str(s)  == [t |-> "str",  b |-> FALSE, s |-> s]

\* pd.isna(v)
isna(v) == v.t \in {"none", "nan"}

\* str(v)
str(v) ==
    CASE v.t = "none" -> <<"N","o","n","e">>
      [] v.t = "nan"  -> <<"n","a","n">>
      [] v.t = "bool" -> IF v.b THEN <<"T","r","u","e">> ELSE <<"F","a","l","s","e">>
      [] OTHER        -> v.s

\* bool(v), as in "if v": None and "" are false, NaN is a float and true
truthy(v) ==
    CASE v.t = "none" -> FALSE
      [] v.t = "nan"  -> TRUE
      [] v.t = "bool" -> v.b
      [] OTHER        -> v.s # <<>>

\* series.fillna(d)
fillna(v, d) == IF isna(v) THEN d ELSE v

(***************************************************************************)
(* A DataFrame is [columns, rows]: the column labels in order and the      *)
(* rows in order, each row with its index label (kept by .loc[] filters)   *)
(* and its cells, one per column.                                          *)
(***************************************************************************)
EmptyFrame == [columns |-> <<>>, rows |-> <<>>]

\* position of the column labelled name (the pipeline uses it on frames whose labels are unique)
ColumnOf(d, name) == Min({p \in 1..Len(d.columns) : d.columns[p] = name})

\* r[name] / r.get(name) for a row r of d
Cell(d, r, name) == r.cells[ColumnOf(d, name)]

\* series.unique(): the values in order of first appearance
Unique(s) ==
    Pick(s, LAMBDA i : \A j \in 1..(i - 1) : s[j] # s[i])

\* the dict with the keys ks, each with the value of the last x that has this key
DictFrom(xs, ks, key(_), val(_)) ==
    [n \in 1..Len(ks) |->
        [k |-> ks[n],
         v |-> val(xs[Max({i \in 1..Len(xs) : key(xs[i]) = ks[n]})])]]

\* a dict built by a comprehension {key(x): val(x) for x in xs}: keys keep the order
\* of their first insertion, a repeated key keeps the last value
DictOf(xs, key(_), val(_)) == DictFrom(xs, Unique([i \in 1..Len(xs) |-> key(xs[i])]), key, val)

\* key in d
HasKey(d, key) == \E n \in 1..Len(d) : d[n].k = key
\* d[key]
Lookup(d, key) == d[CHOOSE n \in 1..Len(d) : d[n].k = key].v
\* d.get(key, dflt)
Get(d, key, dflt) == IF HasKey(d, key) THEN Lookup(d, key) ELSE dflt

-----------------------------------------------------------------------------
(* CONFIGURATION and HELPERS *)

EXPECTED_14_COLS ==
    << <<"Q","u","e","s","t","i","o","n">>, <<"O","p","t","i","o","n","s">>, <<"Q","u","e","s","t","i","o","n","_","T","y","p","e">>, <<"h","a","s","_","i","m","a","g","e">>, <<"C","o","r","r","e","c","t"," ","O","p","t","i","o","n","s">>,
       <<"E","x","p","l","a","n","a","t","i","o","n">>, <<"H","i","n","t","s">>, <<"C","a","t","e","g","o","r","y">>, <<"C","o","l","l","e","c","t","i","o","n">>, <<"Q","u","i","z">>,
       <<"T","a","g">>, <<"d","i","f","f","i","c","u","l","t","y">>, <<"i","s","P","u","b","l","i","c">>, <<"S","t","a","t","u","s">> >>

DEFAULT_CATEGORY_NAME   == <<"M","I","C","R","O","S","O","F","T">>
DEFAULT_COLLECTION_NAME == <<"M","i","c","r","o","s","o","f","t"," ","A","z","u","r","e">>
DEFAULT_PASSMARK == 70
DEFAULT_POINTS == 1
BATCH_SIZE == 45

\* t.upper() for t in tokens
UpperEach(tokens) == [i \in 1..Len(tokens) |-> Upper(tokens[i])]

\* slugify(text)
slugify(text) == Join(UpperEach(Runs(Strip(SubRuns(text, AlnumSet, " ")), AlnumSet)), <<"-">>)

\* make_key(prefix, base): base is a cell value; "if base" is its truth value
make_key(prefix, base) ==
    IF truthy(base) THEN prefix \o <<"-">> \o slugify(str(base)) ELSE prefix

\* sentence_case_name(name)
sentence_case_name(name) ==
    IF name # <<>> THEN Title(Strip(name)) ELSE <<>>

LO_AZURE == <<"D","e","v","e","l","o","p"," ","a","d","m","i","n","i","s","t","r","a","t","o","r","-","l","e","v","e","l"," ","s","k","i","l","l","s"," ","i","n"," ","A","z","u","r","e"," ","i","d","e","n","t","i","t","y",","," ","g","o","v","e","r","n","a","n","c","e",","," ","s","t","o","r","a","g","e",","," ","c","o","m","p","u","t","e",","," ","n","e","t","w","o","r","k","i","n","g",","," ","a","n","d"," ","m","o","n","i","t","o","r","i","n","g"," ","a","l","i","g","n","e","d"," ","t","o"," ","A","Z","-","1","0","4"," ","o","b","j","e","c","t","i","v","e","s",".">>
LO_M365  == <<"B","u","i","l","d"," ","p","r","o","f","i","c","i","e","n","c","y"," ","i","n"," ","M","i","c","r","o","s","o","f","t"," ","3","6","5"," ","s","e","r","v","i","c","e","s",","," ","s","e","c","u","r","i","t","y",","," ","c","o","m","p","l","i","a","n","c","e",","," ","a","n","d"," ","i","d","e","n","t","i","t","y"," ","t","o"," ","m","a","n","a","g","e"," ","m","o","d","e","r","n"," ","w","o","r","k","p","l","a","c","e"," ","s","c","e","n","a","r","i","o","s",".">>
LO_DATA  == <<"S","t","r","e","n","g","t","h","e","n"," ","d","a","t","a"," ","e","n","g","i","n","e","e","r","i","n","g"," ","a","n","d"," ","a","n","a","l","y","t","i","c","s"," ","s","k","i","l","l","s"," ","o","n"," ","A","z","u","r","e"," ","s","e","r","v","i","c","e","s"," ","i","n","c","l","u","d","i","n","g"," ","s","t","o","r","a","g","e",","," ","c","o","m","p","u","t","e",","," ","s","e","c","u","r","i","t","y",","," ","a","n","d"," ","m","o","n","i","t","o","r","i","n","g",".">>

\* table.get(name), else the sentence built from name
outcome_of(name) ==
    CASE name = <<"M","i","c","r","o","s","o","f","t"," ","A","z","u","r","e">> -> LO_AZURE
      [] name = <<"M","i","c","r","o","s","o","f","t"," ","3","6","5">>   -> LO_M365
      [] name = <<"A","z","u","r","e"," ","D","a","t","a">>      -> LO_DATA
      [] OTHER -> IF name # <<>>
                  THEN <<"B","u","i","l","d"," ","p","r","o","f","i","c","i","e","n","c","y"," ","i","n"," ">> \o name
                       \o <<" ","a","l","i","g","n","e","d"," ","t","o"," ","r","e","l","e","v","a","n","t"," ","c","e","r","t","i","f","i","c","a","t","i","o","n"," ","o","b","j","e","c","t","i","v","e","s",".">>
                  ELSE <<>>

\* learning_outcome_for(collection_name)
learning_outcome_for(collection_name) == outcome_of(Strip(collection_name))

\* s from position c on when "hint" stands at a and ":" at c, else s
after_hint(s, a, c) ==
    IF LitAt(<<"h","i","n","t">>, Lower(s), a) /\ c <= Len(s) /\ s[c] = ":"
    THEN SubSeq(s, SkipSpace(s, c + 1), Len(s))
    ELSE s

\* s from position a on when "hint", white space and ":" stand there, else s
hint_at(s, a) == after_hint(s, a, SkipSpace(s, a + 4))

\* re.sub(r'^\s*hint\s*:\s*', '', s, flags=re.IGNORECASE)
drop_hint_prefix(s) == hint_at(s, SkipSpace(s, 1))

\* the last position of s that holds no white space, 0 when there is none
LastInk(s, n) == Max({0} \cup {i \in 1..n : s[i] \notin SpaceSet})

\* the positions o where \[[0-9A-Za-z]{3,8}\] matches up to position e
tag_starts(s, e) ==
    {o \in 1..e :
        /\ s[o] = "[" /\ s[e] = "]"
        /\ e - o - 1 \in 3..8
        /\ \A i \in (o + 1)..(e - 1) : s[i] \in AlnumSet}

\* s without the bracketed code that starts at one of the positions tagged
cut_tag(s, tagged) ==
    IF tagged = {} THEN s ELSE SubSeq(s, 1, LastInk(s, (CHOOSE o \in tagged : TRUE) - 1))

\* re.sub(r'\s*\[[0-9A-Za-z]{3,8}\]\s*$', '', s)
drop_bracket_code(s) == cut_tag(s, tag_starts(s, LastInk(s, Len(s))))

\* clean_hint_text(h)
clean_hint_text(h) ==
    IF isna(h) THEN <<>> ELSE Strip(drop_bracket_code(drop_hint_prefix(Strip(str(h)))))

\* the key function k of normalize_columns
k(s) == DropNot(Lower(Strip(s)), LowerSet \cup DigitSet)

aliases ==
    << [k |-> <<"q","u","e","s","t","i","o","n","t","y","p","e">>,   v |-> <<"Q","u","e","s","t","i","o","n","_","T","y","p","e">>],
       [k |-> <<"h","a","s","i","m","a","g","e">>,       v |-> <<"h","a","s","_","i","m","a","g","e">>],
       [k |-> <<"c","o","r","r","e","c","t","o","p","t","i","o","n","s">>, v |-> <<"C","o","r","r","e","c","t"," ","O","p","t","i","o","n","s">>],
       [k |-> <<"c","o","r","r","e","c","t","o","p","t","i","o","n">>,  v |-> <<"C","o","r","r","e","c","t"," ","O","p","t","i","o","n","s">>],
       [k |-> <<"c","o","r","r","e","c","t","a","n","s","w","e","r">>,  v |-> <<"C","o","r","r","e","c","t"," ","O","p","t","i","o","n","s">>],
       [k |-> <<"a","n","s","w","e","r","s">>,        v |-> <<"C","o","r","r","e","c","t"," ","O","p","t","i","o","n","s">>],
       [k |-> <<"t","a","g","s">>,           v |-> <<"T","a","g">>],
       [k |-> <<"i","s","p","u","b","l","i","c">>,       v |-> <<"i","s","P","u","b","l","i","c">>] >>

\* k(target) for target in EXPECTED_14_COLS
EXPECTED_KEYS == [i \in 1..14 |-> k(EXPECTED_14_COLS[i])]

\* the targets whose first loop sets renames[c]: those with colmap[k(target)] = c
targets_of(colmap, c) ==
    {i \in 1..14 : HasKey(colmap, EXPECTED_KEYS[i]) /\ Lookup(colmap, EXPECTED_KEYS[i]) = c}

\* renames.get(c, c) after both loops, targets being the targets of c in the first loop
new_label(c, targets) ==
    IF targets # {} THEN EXPECTED_14_COLS[Max(targets)] ELSE Get(aliases, k(c), c)

\* df.rename(columns=renames).columns, for colmap = {k(c): c for c in df.columns}
renamed(cols, colmap) ==
    [p \in 1..Len(cols) |-> new_label(cols[p], targets_of(colmap, cols[p]))]

\* for col in EXPECTED_14_COLS: if col not in df2.columns: df2[col] = None
with_missing(cols) ==
    cols \o SelectSeq(EXPECTED_14_COLS, LAMBDA col : \A p \in 1..Len(cols) : cols[p] # col)

RECURSIVE Selection(_, _)
\* the positions df2[labels] selects: for each label in turn, every column carrying it
Selection(columns, labels) ==
    IF labels = <<>> THEN <<>>
    ELSE SelectSeq(Indices(columns), LAMBDA p : columns[p] = labels[1])
         \o Selection(columns, Tail(labels))

\* the columns at the positions sel of d with the labels cols2 (None in an added column)
selected(d, cols2, sel) ==
    [columns |-> At(cols2, sel),
     rows |-> [i \in 1..Len(d.rows) |->
         [index |-> d.rows[i].index,
          cells |-> [n \in 1..Len(sel) |->
              IF sel[n] <= Len(d.columns) THEN d.rows[i].cells[sel[n]] ELSE NoneV]]]]

\* df2[EXPECTED_14_COLS] for the labels cols2 of df2
expected_of(d, cols2) == selected(d, cols2, Selection(cols2, EXPECTED_14_COLS))

\* normalize_columns(df)
normalize_columns(d) ==
    expected_of(d, with_missing(renamed(d.columns, DictOf(d.columns, k, LAMBDA c : c))))

\* s contains lit
Contains(s, lit) == \E i \in 1..Len(s) : LitAt(lit, s, i)

UNSUPPORTED_TYPES == { <<"h","o","t","s","p","o","t">>, <<"d","r","a","g">>, <<"s","i","m","u","l","a","t","i","o","n">> }

\* a variant of unsupported that looks for hotspot alone (UnsupportedRowsExcluded tells it apart)
unsupported_first_only(v) ==
    Contains(Lower(str(v)), <<"h","o","t","s","p","o","t">>)

\* .astype(str).str.contains(r"hotspot|drag|simulation", case=False, na=False)
unsupported(v) ==
    \E lit \in UNSUPPORTED_TYPES : Contains(Lower(str(v)), lit)

\* df.loc[~df["Question_Type"]...contains(...)]
drop_unsupported(d) ==
    [d EXCEPT !.rows = SelectSeq(d.rows,
        LAMBDA r : ~unsupported(Cell(d, r, <<"Q","u","e","s","t","i","o","n","_","T","y","p","e">>)))]

TRUE_WORDS == { <<"t","r","u","e">>, <<"1">>, <<"y","e","s">>, <<"y">> }

\* a variant of as_flag that takes every text as false (HasImageNormalized tells it apart)
as_flag_bool_only(v, dflt) ==
    IF isna(v) THEN Bool(dflt)
    ELSE IF v.t = "bool" THEN v
    ELSE Bool(FALSE)

\* lambda v: <dflt> if pd.isna(v) else bool(v) if isinstance(v, bool)
\*           else str(v).strip().lower() in {"true", "1", "yes", "y"}
as_flag(v, dflt) ==
    IF isna(v) THEN Bool(dflt)
    ELSE IF v.t = "bool" THEN v
    ELSE Bool(Lower(Strip(str(v))) \in TRUE_WORDS)

DIFFICULTIES == { <<"l","o","w">>, <<"m","e","d","i","u","m">>, <<"h","i","g","h">> }

\* lambda s: s if s in {"low", "medium", "high"} else "medium"
known_difficulty(s) == Str(IF s \in DIFFICULTIES THEN s ELSE <<"m","e","d","i","u","m">>)

\* the difficulty column of ensure_required_metadata
as_difficulty(v) == known_difficulty(Lower(str(fillna(v, Str(<<"m","e","d","i","u","m">>)))))

\* the cell ensure_required_metadata leaves in the column col, from the cell v it finds
required_value(col, v) ==
    CASE col = <<"C","a","t","e","g","o","r","y">>      -> Str(Upper(str(fillna(v, Str(DEFAULT_CATEGORY_NAME)))))
      [] col = <<"C","o","l","l","e","c","t","i","o","n">>    -> fillna(v, Str(DEFAULT_COLLECTION_NAME))
      [] col = <<"T","a","g">>           -> fillna(v, Str(<<>>))
      [] col = <<"i","s","P","u","b","l","i","c">>      -> as_flag(v, TRUE)
      [] col = <<"S","t","a","t","u","s">>        -> Str(<<"d","r","a","f","t">>)
      [] col = <<"d","i","f","f","i","c","u","l","t","y">>    -> as_difficulty(v)
      [] col = <<"Q","u","e","s","t","i","o","n","_","T","y","p","e">> -> Str(Lower(str(fillna(v, Str(<<"m","u","l","t","i","p","l","e","_","c","h","o","i","c","e">>)))))
      [] col = <<"H","i","n","t","s">>         -> Str(clean_hint_text(v))
      [] col = <<"h","a","s","_","i","m","a","g","e">>     -> as_flag(v, FALSE)
      [] OTHER                 -> v

\* ensure_required_metadata(df), on a frame that has each of these columns once
ensure_required_metadata(d) ==
    [d EXCEPT !.rows = [i \in 1..Len(d.rows) |->
        [d.rows[i] EXCEPT !.cells = [p \in 1..Len(d.columns) |->
            required_value(d.columns[p], d.rows[i].cells[p])]]]]

\* a Quiz cell that enforce_batches fills
blank_quiz(q) == isna(q) \/ Strip(str(q)) = <<>>

\* a variant of enforce_batches that counts a row by its index label, its position in
\* the table read from the file (BatchAssignment tells it apart)
enforce_batches_by_label(d, batch_size) ==
    IF \E i \in 1..Len(d.rows) : blank_quiz(Cell(d, d.rows[i], <<"Q","u","i","z">>))
    THEN [d EXCEPT !.rows = [i \in 1..Len(d.rows) |->
            IF blank_quiz(Cell(d, d.rows[i], <<"Q","u","i","z">>))
            THEN [d.rows[i] EXCEPT !.cells[ColumnOf(d, <<"Q","u","i","z">>)] =
                     Str(<<"B","a","t","c","h"," ">> \o DecimalDigits((d.rows[i].index \div batch_size) + 1))]
            ELSE d.rows[i]]]
    ELSE d

\* enforce_batches(df, batch_size)
enforce_batches(d, batch_size) ==
    IF \E i \in 1..Len(d.rows) : blank_quiz(Cell(d, d.rows[i], <<"Q","u","i","z">>))
    THEN [d EXCEPT !.rows = [i \in 1..Len(d.rows) |->
            IF blank_quiz(Cell(d, d.rows[i], <<"Q","u","i","z">>))
            THEN [d.rows[i] EXCEPT !.cells[ColumnOf(d, <<"Q","u","i","z">>)] =
                     Str(<<"B","a","t","c","h"," ">> \o DecimalDigits(((i - 1) \div batch_size) + 1))]
            ELSE d.rows[i]]]
    ELSE d

\* load_agent_input(path), from the DataFrame read from the file
load_agent_input(d) ==
    enforce_batches(ensure_required_metadata(drop_unsupported(normalize_columns(d))), BATCH_SIZE)

-----------------------------------------------------------------------------
(* Key maps, Categories, Collections *)

\* build_key_maps(df): three dicts from the stripped name to its key
build_key_maps(d) ==
    [cats |-> DictOf(Unique([i \in 1..Len(d.rows) |->
                        fillna(Cell(d, d.rows[i], <<"C","a","t","e","g","o","r","y">>), Str(DEFAULT_CATEGORY_NAME))]),
                     LAMBDA x : Strip(str(x)),
                     LAMBDA x : make_key(<<"C","A","T">>, x)),
     cols |-> DictOf(Unique([i \in 1..Len(d.rows) |->
                        fillna(Cell(d, d.rows[i], <<"C","o","l","l","e","c","t","i","o","n">>), Str(DEFAULT_COLLECTION_NAME))]),
                     LAMBDA x : Strip(str(x)),
                     LAMBDA x : make_key(<<"C","O","L">>, x)),
     quizzes |-> DictOf(Unique([i \in 1..Len(d.rows) |->
                        fillna(Cell(d, d.rows[i], <<"Q","u","i","z">>), Str(<<>>))]),
                     LAMBDA x : Strip(str(x)),
                     LAMBDA x : make_key(<<"Q","U","I","Z">>, IF Strip(str(x)) # <<>> THEN x ELSE Str(<<"B","A","T","C","H">>)))]

\* build_categories_df(cat_map)
build_categories_df(cat_map) ==
    [n \in 1..Len(cat_map) |->
        [CategoryKey |-> cat_map[n].v,
         Name        |-> cat_map[n].k,
         Description |-> sentence_case_name(cat_map[n].k) \o <<" ","c","e","r","t","i","f","i","c","a","t","i","o","n">>]]

\* build_collections_df(col_map, default_category_key)
build_collections_df(col_map, default_category_key) ==
    [n \in 1..Len(col_map) |->
        [CollectionKey   |-> col_map[n].v,
         Name            |-> col_map[n].k,
         Description     |-> col_map[n].k \o <<".">>,
         LearningOutcome |-> learning_outcome_for(col_map[n].k),
         IsPublic        |-> TRUE,
         CategoryKey     |-> default_category_key,
         CoverImage      |-> <<>>]]

-----------------------------------------------------------------------------
(* Tag inference *)

ROLE_HINT_WORDS ==
    { <<"a","d","m","i","n","i","s","t","r","a","t","o","r">>, <<"a","d","m","i","n">>, <<"d","e","v","e","l","o","p","e","r">>, <<"s","e","c","u","r","i","t","y">>, <<"a","r","c","h","i","t","e","c","t">>, <<"e","n","g","i","n","e","e","r">>,
      <<"d","a","t","a">>, <<"a","i">>, <<"d","e","v","o","p","s">>, <<"f","u","n","d","a","m","e","n","t","a","l","s">>, <<"a","s","s","o","c","i","a","t","e">>, <<"e","x","p","e","r","t">> }

(***************************************************************************)
(* KEYWORD_TAG_MAP, in the order of the dict.  A pattern is the set of its *)
(* alternatives, every one between two \b; an alternative is a sequence of *)
(* literals with \s* between one literal and the next.                     *)
(***************************************************************************)
KEYWORD_TAG_MAP ==
    << [alts |-> { << <<"a","z","u","r","e">>, <<"a","d">> >>, << <<"e","n","t","r","a">> >> },            tag |-> <<"i","d","e","n","t","i","t","y">>],
       [alts |-> { << <<"c","o","n","d","i","t","i","o","n","a","l"," ","a","c","c","e","s","s">> >> },                    tag |-> <<"c","o","n","d","i","t","i","o","n","a","l","-","a","c","c","e","s","s">>],
       [alts |-> { << <<"m","f","a">> >>, << <<"m","u","l","t","i","f","a","c","t","o","r">> >> },              tag |-> <<"m","f","a">>],
       [alts |-> { << <<"r","b","a","c">> >> },                                  tag |-> <<"r","b","a","c">>],
       [alts |-> { << <<"k","e","y"," ","v","a","u","l","t">> >> },                             tag |-> <<"k","e","y","-","v","a","u","l","t">>],
       [alts |-> { << <<"m","a","n","a","g","e","d"," ","i","d","e","n","t","i","t","y">> >> },                      tag |-> <<"m","a","n","a","g","e","d","-","i","d","e","n","t","i","t","y">>],
       [alts |-> { << <<"p","o","l","i","c","y">> >> },                                tag |-> <<"p","o","l","i","c","y">>],
       [alts |-> { << <<"b","l","u","e","p","r","i","n","t">> >>, << <<"b","l","u","e","p","r","i","n","t","s">> >> },         tag |-> <<"b","l","u","e","p","r","i","n","t","s">>],
       [alts |-> { << <<"b","l","o","b">> >>, << <<"s","t","o","r","a","g","e"," ","a","c","c","o","u","n","t">> >> },         tag |-> <<"s","t","o","r","a","g","e">>],
       [alts |-> { << <<"c","o","s","m","o","s"," ","d","b">> >> },                             tag |-> <<"c","o","s","m","o","s","d","b">>],
       [alts |-> { << <<"s","q","l"," ","m","a","n","a","g","e","d"," ","i","n","s","t","a","n","c","e">> >>, << <<"s","q","l"," ","d","a","t","a","b","a","s","e">> >> }, tag |-> <<"s","q","l">>],
       [alts |-> { << <<"v","i","r","t","u","a","l"," ","m","a","c","h","i","n","e">> >>, << <<"v","m">> >>, << <<"s","c","a","l","e"," ","s","e","t">> >> }, tag |-> <<"c","o","m","p","u","t","e">>],
       [alts |-> { << <<"a","k","s">> >>, << <<"k","u","b","e","r","n","e","t","e","s">> >> },               tag |-> <<"c","o","n","t","a","i","n","e","r","s">>],
       [alts |-> { << <<"a","p","p"," ","s","e","r","v","i","c","e">> >> },                           tag |-> <<"a","p","p","-","s","e","r","v","i","c","e">>],
       [alts |-> { << <<"v","n","e","t">> >>, << <<"v","i","r","t","u","a","l"," ","n","e","t","w","o","r","k">> >>, << <<"s","u","b","n","e","t">> >>, << <<"n","s","g">> >>, << <<"p","e","e","r","i","n","g">> >> },
                                                                    tag |-> <<"n","e","t","w","o","r","k","i","n","g">>],
       [alts |-> { << <<"a","p","p","l","i","c","a","t","i","o","n"," ","g","a","t","e","w","a","y">> >>, << <<"a","p","p","g","w">> >> },    tag |-> <<"a","p","p","l","i","c","a","t","i","o","n","-","g","a","t","e","w","a","y">>],
       [alts |-> { << <<"b","a","s","t","i","o","n">> >> },                               tag |-> <<"b","a","s","t","i","o","n">>],
       [alts |-> { << <<"d","e","f","e","n","d","e","r"," ","f","o","r"," ","c","l","o","u","d">> >>, << <<"s","e","c","u","r","i","t","y"," ","c","e","n","t","e","r">> >> }, tag |-> <<"d","e","f","e","n","d","e","r">>],
       [alts |-> { << <<"m","o","n","i","t","o","r">> >>, << <<"l","o","g"," ","a","n","a","l","y","t","i","c","s">> >> },        tag |-> <<"m","o","n","i","t","o","r","i","n","g">>],
       [alts |-> { << <<"s","e","n","t","i","n","e","l">> >> },                              tag |-> <<"s","e","n","t","i","n","e","l">>],
       [alts |-> { << <<"b","a","c","k","u","p">> >>, << <<"r","e","c","o","v","e","r","y"," ","s","e","r","v","i","c","e","s"," ","v","a","u","l","t">> >>, << <<"a","s","r">> >> }, tag |-> <<"b","a","c","k","u","p">>],
       [alts |-> { << <<"f","u","n","c","t","i","o","n">> >>, << <<"f","u","n","c","t","i","o","n","s">> >> },           tag |-> <<"f","u","n","c","t","i","o","n","s">>],
       [alts |-> { << <<"e","v","e","n","t"," ","h","u","b">> >>, << <<"e","v","e","n","t"," ","h","u","b","s">> >> },         tag |-> <<"e","v","e","n","t","-","h","u","b","s">>],
       [alts |-> { << <<"s","e","r","v","i","c","e"," ","b","u","s">> >> },                           tag |-> <<"s","e","r","v","i","c","e","-","b","u","s">>] >>

RECURSIVE AltEnd(_, _, _)
\* the position after a match of the alternative alt that starts at i; 0 when there is none
AltEnd(alt, s, i) ==
    IF ~LitAt(alt[1], s, i) THEN 0
    ELSE IF Len(alt) = 1 THEN i + Len(alt[1])
    ELSE AltEnd(Tail(alt), s, SkipSpace(s, i + Len(alt[1])))

\* re.search(pat, s) for a pattern of KEYWORD_TAG_MAP
SearchPattern(alts, s) ==
    \E alt \in alts : \E i \in 1..Len(s) :
        /\ Boundary(s, i)
        /\ AltEnd(alt, s, i) # 0
        /\ Boundary(s, AltEnd(alt, s, i))

\* re.search(rf"\b{re.escape(w)}\b", s)
SearchWord(w, s) == SearchPattern({<<w>>}, s)

\* tags_from_collection(collection_name)
tags_from_collection(collection_name) ==
    IF ~truthy(collection_name) THEN <<>>
    ELSE Runs(Lower(collection_name.s), LowerSet \cup DigitSet)

\* the end of the run of lower-case letters that starts at i, plus one
LettersEnd(s, i) == Min({j \in i..(Len(s) + 1) : j = Len(s) + 1 \/ s[j] \notin LowerSet})

\* ([a-z]{1,3}-\d{2,4}) between two \b matches s from first to last, the "-" at dash
CodeAt(s, first, dash, last) ==
    /\ Boundary(s, first)
    /\ dash - first \in 1..3
    /\ dash <= Len(s) /\ s[dash] = "-"
    /\ last - dash \in 2..4
    /\ \A j \in (dash + 1)..last : s[j] \in DigitSet
    /\ Boundary(s, last + 1)

\* the matches of ([a-z]{1,3}-\d{2,4}) between two \b in s, as <<first, last>> positions
ExamCodes(s) ==
    {m \in (1..Len(s)) \X (1..Len(s)) : CodeAt(s, m[1], LettersEnd(s, m[1]), m[2])}

\* the text of the leftmost of the matches M (the longest of those), <<>> when there is none
leftmost(s, M) ==
    IF M = {} THEN <<>>
    ELSE SubSeq(s, Min({m[1] : m \in M}), Max({m[2] : m \in {o \in M : \A n \in M : o[1] <= n[1]}}))

\* re.search(r"\b([a-z]{1,3}-\d{2,4})\b", s): the leftmost match, <<>> when there is none
exam_code(s) == leftmost(s, ExamCodes(s))

\* tags.append(m.group(1)) if there is a match m
code_tag(m) == IF m # <<>> THEN <<m>> ELSE <<>>

\* the tags of the lower-cased title s, before the final de-duplication
title_tags(s, order) ==
    code_tag(exam_code(s))
    \o SelectSeq(order, LAMBDA w : w \in ROLE_HINT_WORDS /\ SearchWord(w, s))
    \o SelectSeq(Runs(s, LowerSet \cup DigitSet), LAMBDA t : t \in { <<"a","z","u","r","e">>, <<"m","i","c","r","o","s","o","f","t">> })

\* tags_from_quiz_title(title); order is the order in which the set ROLE_HINT_WORDS iterates
tags_from_quiz_title(title, order) ==
    IF title = <<>> THEN <<>> ELSE Unique(title_tags(Lower(title), order))

\* score[tag]: the number of texts of content in which the pattern of entry n is found
score_of(content) ==
    [n \in 1..24 |->
        Cardinality({i \in 1..Len(content) : SearchPattern(KEYWORD_TAG_MAP[n].alts, content[i])})]

\* entry a sorts before entry b under key=lambda kv: (-kv[1], kv[0])
sorts_before(score, tags, a, b) ==
    \/ score[a] > score[b]
    \/ score[a] = score[b] /\ StrLess(tags[a], tags[b])

\* the tags of the entries hit, sorted
sorted_tags(score, tags, hit) ==
    [r \in 1..Cardinality(hit) |->
        tags[CHOOSE a \in hit : 1 + Cardinality({b \in hit : sorts_before(score, tags, b, a)}) = r]]

\* the tags with a score, sorted
scored_tags(score) ==
    sorted_tags(score, [n \in 1..24 |-> KEYWORD_TAG_MAP[n].tag], {n \in 1..24 : score[n] > 0})

\* sorted(score.items(), key=lambda kv: (-kv[1], kv[0])) over the tags with a score
sorted_by_score(content) == scored_tags(score_of(content))

TAG_CHARS == LowerSet \cup DigitSet \cup {"-"}

\* re.sub(r"[^a-z0-9\-]+", "", t.lower()).strip("-")
normal_tag(t) == StripChar(DropNot(Lower(t), TAG_CHARS), "-")

\* norm after "if t2 and t2 not in seen: seen.add(t2); norm.append(t2)"
with_tag(norm, t2) == IF t2 # <<>> /\ t2 \notin Range(norm) THEN Append(norm, t2) ELSE norm

\* a variant of dedupe_and_truncate that keeps every tag (TagsBounded tells it apart)
RECURSIVE dedupe_no_limit(_, _, _)
dedupe_no_limit(tag_list, norm, max_tags) ==
    IF tag_list = <<>> THEN norm
    ELSE dedupe_no_limit(Tail(tag_list), Append(norm, normal_tag(tag_list[1])), max_tags)

RECURSIVE dedupe_and_truncate(_, _, _)
\* norm after the pass of "for t in tag_list" that made it norm2
truncate_or_go_on(tag_list, norm2, max_tags) ==
    IF Len(norm2) >= max_tags THEN norm2
    ELSE dedupe_and_truncate(Tail(tag_list), norm2, max_tags)

\* the loop "for t in tag_list" of infer_tags_for_quiz: norm so far (seen is its range)
dedupe_and_truncate(tag_list, norm, max_tags) ==
    IF tag_list = <<>> THEN norm
    ELSE truncate_or_go_on(tag_list, with_tag(norm, normal_tag(tag_list[1])), max_tags)

\* " ".join([Question, Explanation]).lower() of each row of sub
content_of(d, sub) ==
    [i \in 1..Len(sub) |->
        Lower(str(fillna(Cell(d, sub[i], <<"Q","u","e","s","t","i","o","n">>), Str(<<>>))) \o <<" ">>
              \o str(fillna(Cell(d, sub[i], <<"E","x","p","l","a","n","a","t","i","o","n">>), Str(<<>>))))]

\* the candidate tags of infer_tags_for_quiz, before normalisation
tag_candidates(d, sub, collection_name, quiz_title, order) ==
    tags_from_collection(collection_name)
    \o tags_from_quiz_title(quiz_title, order)
    \o sorted_by_score(content_of(d, sub))

\* infer_tags_for_quiz(quiz_df, collection_name, quiz_title, max_tags): the list norm
infer_tags_for_quiz(d, sub, collection_name, quiz_title, max_tags, order) ==
    dedupe_and_truncate(tag_candidates(d, sub, collection_name, quiz_title, order), <<>>, max_tags)

MAX_TAGS == 8

\* the number of times v occurs in diffs
Count(diffs, v) == Cardinality({i \in 1..Len(diffs) : diffs[i] = v})

\* the values of diffs that occur top times
top_vals(diffs, top) == {v \in Range(diffs) : Count(diffs, v) = top}

\* the values of diffs that occur most often
modes(diffs) == top_vals(diffs, Max({Count(diffs, v) : v \in Range(diffs)}))

\* "medium" unless exactly one value occurs most often
single_mode(top) == IF Cardinality(top) = 1 THEN CHOOSE v \in top : TRUE ELSE <<"m","e","d","i","u","m">>

\* a variant of quiz_difficulty that takes the first of the tied values (DifficultyIsStrictMode tells it apart)
quiz_difficulty_first_on_tie(diffs) ==
    IF Len(diffs) = 0 THEN <<"m","e","d","i","u","m">>
    ELSE SelectSeq(diffs, LAMBDA v : v \in modes(diffs))[1]

\* Difficulty of build_quizzes_df from the difficulty column of the quiz's rows
quiz_difficulty(diffs) ==
    IF Len(diffs) = 0 THEN <<"m","e","d","i","u","m">> ELSE single_mode(modes(diffs))

\* the rows of d whose str(Quiz) is title
quiz_rows(d, title) == SelectSeq(d.rows, LAMBDA r : str(Cell(d, r, <<"Q","u","i","z">>)) = title)

\* the Quiz record of the group sub of rows whose title is title
quiz_record(d, title, sub, quiz_map, collection_key, order) ==
    [QuizKey       |-> Lookup(quiz_map, Strip(title)),
     CollectionKey |-> collection_key,
     Title         |-> title,
     Description   |-> str(Cell(d, sub[1], <<"C","o","l","l","e","c","t","i","o","n">>)),
     PassMark      |-> DEFAULT_PASSMARK,
     Difficulty    |-> quiz_difficulty([i \in 1..Len(sub) |-> str(Cell(d, sub[i], <<"d","i","f","f","i","c","u","l","t","y">>))]),
     isPublic      |-> TRUE,
     Status        |-> <<"d","r","a","f","t">>,
     Tags          |-> Join(infer_tags_for_quiz(d, sub, Cell(d, sub[1], <<"C","o","l","l","e","c","t","i","o","n">>), title,
                                                MAX_TAGS, order), <<","," ">>)]

\* the Quiz records of the groups of df.groupby("Quiz"), for the titles in order
quiz_records(d, titles, quiz_map, collection_key, order) ==
    [n \in 1..Len(titles) |->
        quiz_record(d, titles[n], quiz_rows(d, titles[n]), quiz_map, collection_key, order)]

\* build_quizzes_df(df, quiz_map, collection_key)
build_quizzes_df(d, quiz_map, collection_key, order) ==
    quiz_records(d, Unique([i \in 1..Len(d.rows) |-> str(Cell(d, d.rows[i], <<"Q","u","i","z">>))]),
                 quiz_map, collection_key, order)

-----------------------------------------------------------------------------
(* Options, question type and correct letters *)

SEPARATORS == {";", "|"}

\* [A-Ja-j]\) at position i of s
MarkerAt(s, i) == i >= 1 /\ i + 1 <= Len(s) /\ s[i] \in LetterAJ /\ s[i+1] = ")"

\* e when the separator may end at e (a marker must follow when marker), else 0
EndIf(s, e, marker) == IF ~marker \/ MarkerAt(s, e) THEN e ELSE 0

\* the position after [;|]\s* when the separator character stands at j, else 0
SeparatorAt(s, j, marker) ==
    IF j <= Len(s) /\ s[j] \in SEPARATORS THEN EndIf(s, SkipSpace(s, j + 1), marker) ELSE 0

\* the position after a match of \s*[;|]\s* (followed by (?=[A-Ja-j]\)) when marker)
\* that starts at i; 0 when there is none
SeparatorEnd(s, i, marker) == SeparatorAt(s, SkipSpace(s, i), marker)

RECURSIVE SplitFrom(_, _, _, _)
\* the pieces from start on when a separator that starts at i ends at e (none when e = 0)
SplitAt(s, start, i, marker, e) ==
    IF e = 0 THEN SplitFrom(s, start, i + 1, marker)
    ELSE <<SubSeq(s, start, i - 1)>> \o SplitFrom(s, e, e, marker)

\* re.split(pattern, s): the pieces from position start on, scanning from i
SplitFrom(s, start, i, marker) ==
    IF i > Len(s) THEN <<SubSeq(s, start, Len(s))>>
    ELSE SplitAt(s, start, i, marker, SeparatorEnd(s, i, marker))

\* re.sub(r"^[A-Ja-j]\)\s*", "", p)
DropMarker(p) == IF MarkerAt(p, 1) THEN SubSeq(p, SkipSpace(p, 3), Len(p)) ELSE p

\* [p for p in parts if p.strip()]
NonBlank(parts) == SelectSeq(parts, LAMBDA p : Strip(p) # <<>>)

\* [re.sub(r"^[A-Ja-j]\)\s*", "", p).strip().strip(";") for p in parts]
CleanEach(parts) == [n \in 1..Len(parts) |-> StripChar(Strip(DropMarker(parts[n])), ";")]

\* [p.strip() for p in parts]
StripEach(parts) == [n \in 1..Len(parts) |-> Strip(parts[n])]

\* split_options for the stripped, non-empty text s
split_text(s) ==
    IF \E i \in 1..Len(s) : MarkerAt(s, i) /\ Boundary(s, i)
    THEN SelectSeq(CleanEach(NonBlank(SplitFrom(s, 1, 1, TRUE))), LAMBDA c : c # <<>>)
    ELSE StripEach(NonBlank(SplitFrom(s, 1, 1, FALSE)))

\* split_options(text)
split_options(text) ==
    IF isna(text) \/ Strip(str(text)) = <<>> THEN <<>> ELSE split_text(Strip(str(text)))

KNOWN_TYPES ==
    { <<"m","u","l","t","i","p","l","e","_","c","h","o","i","c","e">>, <<"m","u","l","t","i","p","l","e"," ","a","n","s","w","e","r">>, <<"m","u","l","t","i","p","l","e","_","a","n","s","w","e","r">>, <<"t","r","u","e","_","f","a","l","s","e">>,
      <<"t","e","x","t","_","i","n","p","u","t">>, <<"s","h","o","r","t","_","a","n","s","w","e","r">>, <<"i","m","a","g","e","_","b","a","s","e","d">> }

\* determine_type for the stripped, lower-cased qtype q
type_of(q, options) ==
    IF q \in KNOWN_TYPES
    THEN (IF q = <<"m","u","l","t","i","p","l","e"," ","a","n","s","w","e","r">> THEN <<"m","u","l","t","i","p","l","e","_","a","n","s","w","e","r">> ELSE q)
    ELSE IF /\ Len(options) = 2
            /\ \A n \in 1..2 : Lower(options[n]) \in { <<"t","r","u","e">>, <<"f","a","l","s","e">>, <<"y","e","s">>, <<"n","o">> }
    THEN <<"t","r","u","e","_","f","a","l","s","e">>
    ELSE IF options # <<>> THEN <<"m","u","l","t","i","p","l","e","_","c","h","o","i","c","e">> ELSE <<"t","e","x","t","_","i","n","p","u","t">>

\* determine_type(qtype, options)
determine_type(qtype, options) ==
    type_of(Strip(Lower(IF truthy(qtype) THEN str(qtype) ELSE <<>>)), options)

\* {x.upper() for x in re.findall(r"\b([A-Ja-j])\b", s)}
lone_letters(s) ==
    {ToUpper(s[i]) : i \in {i \in 1..Len(s) :
        s[i] \in LetterAJ /\ Boundary(s, i) /\ Boundary(s, i + 1)}}

\* extract_correct_letters(correct)
extract_correct_letters(correct_text) ==
    IF isna(correct_text) \/ Strip(str(correct_text)) = <<>> THEN {}
    ELSE lone_letters(str(correct_text))

\* the letter of re.search(r"^([A-Ja-j])\)", s), upper-cased; none when there is no match
leading_letter(s) == IF MarkerAt(s, 1) THEN {ToUpper(s[1])} ELSE {}

\* the set correct of the multiple_choice branch
first_marker_letter(correct_text) ==
    IF isna(correct_text) \/ Strip(str(correct_text)) = <<>> THEN {}
    ELSE leading_letter(Strip(str(correct_text)))

RECURSIVE FindAll(_, _)
\* the letters FindAll finds from i on when a ";" at i is followed, after white space, by position j
FoundAt(s, i, j) ==
    IF s[i] = ";" /\ MarkerAt(s, j) THEN <<s[j]>> \o FindAll(s, j + 2) ELSE FindAll(s, i + 1)

\* re.findall(r"(?:^|;\s*)([A-Ja-j])\)", s) from position i on: the letters, in order
FindAll(s, i) ==
    IF i > Len(s) THEN <<>>
    ELSE IF i = 1 /\ MarkerAt(s, 1) THEN <<s[1]>> \o FindAll(s, 3)
    ELSE FoundAt(s, i, SkipSpace(s, i + 1))

\* a variant of listed_letters that finds the leading letter alone (MultipleAnswerLetters tells it apart)
listed_letters_start_only(correct_text) ==
    IF isna(correct_text) \/ Strip(str(correct_text)) = <<>> THEN {}
    ELSE leading_letter(Strip(str(correct_text)))

\* the set correct of the multiple_answer branch
listed_letters(correct_text) ==
    IF isna(correct_text) \/ Strip(str(correct_text)) = <<>> THEN {}
    ELSE {ToUpper(c) : c \in Range(FindAll(Strip(str(correct_text)), 1))}

\* the set 'correct' of build_questions_and_options
correct_letters(qtype, correct_text) ==
    IF qtype = <<"m","u","l","t","i","p","l","e","_","c","h","o","i","c","e">> THEN first_marker_letter(correct_text)
    ELSE IF qtype = <<"m","u","l","t","i","p","l","e","_","a","n","s","w","e","r">> THEN listed_letters(correct_text)
    ELSE extract_correct_letters(correct_text)

\* f"Q-{quiz_key}-{idx:03d}"
question_key(quiz_key, idx) == <<"Q","-">> \o quiz_key \o <<"-">> \o ZeroPad(idx, 3)

\* the records appended to o_rows for the option texts shown
options_shown(qkey, shown, correct_set) ==
    [i \in 1..Len(shown) |->
        [OptionKey    |-> <<"O","P","T","-">> \o qkey \o <<"-">> \o ZeroPad(i, 2),
         QuestionKey  |-> qkey,
         Text         |-> shown[i],
         IsCorrect    |-> Chr(64 + i) \in correct_set,
         OrderIndex   |-> i,
         CorrectOrder |-> <<>>,
         Meta         |-> <<>>]]

\* the option records of one question: the rows appended to o_rows
option_rows(qkey, qtype, options, correct_set) ==
    options_shown(qkey,
                  IF options = <<>> /\ qtype = <<"t","r","u","e","_","f","a","l","s","e">> THEN << <<"T","r","u","e">>, <<"F","a","l","s","e">> >> ELSE options,
                  correct_set)

\* a variant of media_url that tests the flag before the lookup map (MediaPrecedence tells it apart)
media_flag_first(q_text, has_img, lookup) ==
    IF Lower(str(has_img)) \in { <<"t","r","u","e">>, <<"1">> } THEN <<"1">>
    ELSE IF HasKey(lookup, q_text) THEN Lookup(lookup, q_text)
    ELSE <<>>

\* MEDIA URL LOGIC of build_questions_and_options
media_url(q_text, has_img, lookup) ==
    IF HasKey(lookup, q_text) THEN Lookup(lookup, q_text)
    ELSE IF Lower(str(has_img)) \in { <<"t","r","u","e">>, <<"1">> } THEN <<"1">>
    ELSE <<>>

\* quiz_map.get(quiz_title, make_key("QUIZ", quiz_title))
quiz_key_of(quiz_title, quiz_map) == Get(quiz_map, quiz_title, make_key(<<"Q","U","I","Z">>, Str(quiz_title)))

\* quiz_key for a row r
row_quiz_key(d, r, quiz_map) == quiz_key_of(Strip(str(Cell(d, r, <<"Q","u","i","z">>))), quiz_map)

\* a variant of next_ordinal that forgets the counter (QuestionOrdinals tells it apart)
counter_reset_per_row(cnt, quiz_key) == 1

\* counters.setdefault(quiz_key, 0); counters[quiz_key] += 1; the new value
next_ordinal(cnt, quiz_key) == Get(cnt, quiz_key, 0) + 1

\* counters after counters[quiz_key] = idx
set_counter(cnt, quiz_key, idx) ==
    IF HasKey(cnt, quiz_key)
    THEN [n \in 1..Len(cnt) |-> IF cnt[n].k = quiz_key THEN [k |-> quiz_key, v |-> idx] ELSE cnt[n]]
    ELSE Append(cnt, [k |-> quiz_key, v |-> idx])

\* the question record of row r with ordinal idx and type qtype
question_row(d, r, quiz_key, idx, qtype, lookup) ==
    [QuestionKey |-> question_key(quiz_key, idx),
     QuizKey     |-> quiz_key,
     Type        |-> qtype,
     Text        |-> str(Cell(d, r, <<"Q","u","e","s","t","i","o","n">>)),
     Points      |-> DEFAULT_POINTS,
     Explanation |-> Cell(d, r, <<"E","x","p","l","a","n","a","t","i","o","n">>),
     Hints       |-> clean_hint_text(Cell(d, r, <<"H","i","n","t","s">>)),
     MediaURL    |-> media_url(str(Cell(d, r, <<"Q","u","e","s","t","i","o","n">>)), Cell(d, r, <<"h","a","s","_","i","m","a","g","e">>), lookup),
     OrderIndex  |-> idx,
     ThresholdKeywords |-> <<>>]

\* the local variables of build_questions_and_options before the loop
LOOP_START == [q_rows |-> <<>>, o_rows |-> <<>>, counters |-> <<>>, correct |-> {}]

\* the variables after the pass for row r, given the values the pass computes
pass_result(st, d, r, quiz_key, idx, options, qtype, correct_set, lookup) ==
    [q_rows   |-> Append(st.q_rows, question_row(d, r, quiz_key, idx, qtype, lookup)),
     o_rows   |-> st.o_rows \o option_rows(question_key(quiz_key, idx), qtype, options, correct_set),
     counters |-> set_counter(st.counters, quiz_key, idx),
     correct  |-> correct_set]

\* the pass for row r once quiz_key, idx, options and qtype are set
pass_typed(st, d, r, quiz_key, idx, options, qtype, lookup) ==
    pass_result(st, d, r, quiz_key, idx, options, qtype,
                correct_letters(qtype, Cell(d, r, <<"C","o","r","r","e","c","t"," ","O","p","t","i","o","n","s">>)), lookup)

\* the pass for row r once quiz_key and options are set
pass_keyed(st, d, r, quiz_key, options, lookup) ==
    pass_typed(st, d, r, quiz_key, next_ordinal(st.counters, quiz_key), options,
               determine_type(Cell(d, r, <<"Q","u","e","s","t","i","o","n","_","T","y","p","e">>), options), lookup)

\* one pass of "for _, r in df.iterrows()"
loop_pass(st, d, r, quiz_map, lookup) ==
    pass_keyed(st, d, r, row_quiz_key(d, r, quiz_map), split_options(Cell(d, r, <<"O","p","t","i","o","n","s">>)), lookup)

RECURSIVE loop_over(_, _, _, _, _, _)
\* the passes for the rows lo..hi of d, in order, from the variables st: the rows up to
\* the middle one first, then the others from the variables these passes leave
loop_over(st, d, lo, hi, quiz_map, lookup) ==
    IF lo > hi THEN st
    ELSE IF lo = hi THEN loop_pass(st, d, d.rows[lo], quiz_map, lookup)
    ELSE CHOOSE last \in {loop_over(mid, d, ((lo + hi) \div 2) + 1, hi, quiz_map, lookup) :
                             mid \in {loop_over(st, d, lo, (lo + hi) \div 2, quiz_map, lookup)}} : TRUE

\* build_questions_and_options(df, quiz_map, image_lookup): its variables at the return
build_questions_and_options(d, quiz_map, lookup) ==
    loop_over(LOOP_START, d, 1, Len(d.rows), quiz_map, lookup)

-----------------------------------------------------------------------------
(* Template and output workbook *)

\* needed of read_template_schemas, also the order in which save_to_workbook writes
NEEDED_SHEETS == << "Categories", "Collections", "Quizzes", "Questions", "Options" >>

HasSheet(book, name) == \E n \in 1..Len(book) : book[n].name = name
Sheet(book, name) == book[CHOOSE n \in 1..Len(book) : book[n].name = name]

\* a variant of template_readable that takes every template as complete
\* (MissingSheetIsFatal tells it apart)
sheets_not_checked(book) == TRUE

\* pd.read_excel(template_path, sheet_name=s) raises for a sheet the template lacks
template_readable(book) == \A n \in 1..5 : HasSheet(book, NEEDED_SHEETS[n])

\* read_template_schemas(template_path): the column list of each needed sheet of the
\* template (main reaches the return only when all of them are there)
read_template_schemas(book) ==
    SelectSeq([n \in 1..5 |->
                  IF HasSheet(book, NEEDED_SHEETS[n])
                  THEN [name |-> NEEDED_SHEETS[n], columns |-> Sheet(book, NEEDED_SHEETS[n]).columns]
                  ELSE [name |-> "", columns |-> <<>>]],
              LAMBDA s : s.name # "")

\* coerce(df, cols) on a list of records: the columns cols, None where a record has none
coerce(recs, cols) ==
    [columns |-> cols,
     rows |-> [i \in 1..Len(recs) |->
                 [n \in 1..Len(cols) |->
                     IF cols[n] \in DOMAIN recs[i] THEN recs[i][cols[n]] ELSE NoneV]]]

\* the first upto sheets, each table coerced to the columns of its schema
written(tables, sch, upto) ==
    [n \in 1..upto |->
        [name |-> NEEDED_SHEETS[n],
         table |-> coerce(tables[n], Sheet(sch, NEEDED_SHEETS[n]).columns)]]

\* save_to_workbook(...): the sheets written inside "with pd.ExcelWriter(...)", in order,
\* up to the first one whose schema is missing (KeyError); the writer saves them on exit
save_to_workbook(cats, cols, quizzes, questions, options, sch) ==
    written(<<cats, cols, quizzes, questions, options>>, sch,
            Min({n \in 1..6 : n = 6 \/ ~HasSheet(sch, NEEDED_SHEETS[n])}) - 1)

-----------------------------------------------------------------------------
(* main(), one action per call *)

\* the column labels of a frame are pairwise different
UniqueColumns(d) ==
    \A p, q \in 1..Len(d.columns) : d.columns[p] = d.columns[q] => p = q

\* ROLE_HINT_WORDS in the order of the set display in the source
WRITTEN_ORDER ==
    << <<"a","d","m","i","n","i","s","t","r","a","t","o","r">>, <<"a","d","m","i","n">>, <<"d","e","v","e","l","o","p","e","r">>, <<"s","e","c","u","r","i","t","y">>, <<"a","r","c","h","i","t","e","c","t">>, <<"e","n","g","i","n","e","e","r">>,
       <<"d","a","t","a">>, <<"a","i">>, <<"d","e","v","o","p","s">>, <<"f","u","n","d","a","m","e","n","t","a","l","s">>, <<"a","s","s","o","c","i","a","t","e">>, <<"e","x","p","e","r","t">> >>

Reverse(s) == [i \in 1..Len(s) |-> s[Len(s) + 1 - i]]

(***************************************************************************)
(* ROLE_HINT_WORDS is a set of str: the order in which a process iterates  *)
(* it is fixed by the string hash seed of the process, which Python draws  *)
(* at start-up.  Two of the possible orders are enough to tell a result    *)
(* that depends on the order from one that does not.                       *)
(***************************************************************************)
HashOrders == { WRITTEN_ORDER, Reverse(WRITTEN_ORDER) }

Inputs == <<raw, lookupFile, template>>

\* what main() builds between "3. Build Structures" and "4. Save"
Structures == <<cats_df, cols_df, quizzes_df, q_rows, o_rows>>

\* 1. df = load_agent_input(Path(args.input))
LoadAgentInput ==
    /\ pc = "load"
    /\ UniqueColumns(normalize_columns(raw))
    /\ df' = load_agent_input(raw)
    /\ pc' = "lookup"
    /\ UNCHANGED <<Inputs, hashOrder, image_lookup, maps, Structures, counters,
                   correct, schemas, output, runs, firstRun>>

\* 2. image_lookup = json.load(f) if args.lookup, {} when the file cannot be loaded
LoadLookup ==
    /\ pc = "lookup"
    /\ image_lookup' = IF lookupFile.kind = "dict" THEN lookupFile.map ELSE <<>>
    /\ pc' = "keys"
    /\ UNCHANGED <<Inputs, hashOrder, df, maps, Structures, counters,
                   correct, schemas, output, runs, firstRun>>

\* 3. cat_map, col_map, quiz_map = build_key_maps(df)
BuildKeyMaps ==
    /\ pc = "keys"
    /\ maps' = build_key_maps(df)
    /\ pc' = "cats"
    /\ UNCHANGED <<Inputs, hashOrder, df, image_lookup, Structures, counters,
                   correct, schemas, output, runs, firstRun>>

\* cats_df = build_categories_df(cat_map)
BuildCategories ==
    /\ pc = "cats"
    /\ cats_df' = build_categories_df(maps.cats)
    /\ pc' = "cols"
    /\ UNCHANGED <<Inputs, hashOrder, df, image_lookup, maps, cols_df, quizzes_df,
                   q_rows, o_rows, counters, correct, schemas, output, runs, firstRun>>

\* cols_df = build_collections_df(col_map, default_category_key=list(cat_map.values())[0])
BuildCollections ==
    /\ pc = "cols"
    /\ maps.cats # <<>>
    /\ cols_df' = build_collections_df(maps.cols, maps.cats[1].v)
    /\ pc' = "quizzes"
    /\ UNCHANGED <<Inputs, hashOrder, df, image_lookup, maps, cats_df, quizzes_df,
                   q_rows, o_rows, counters, correct, schemas, output, runs, firstRun>>

\* list(cat_map.values())[0] raises IndexError when no row survived the filter
BuildCollectionsFails ==
    /\ pc = "cols"
    /\ maps.cats = <<>>
    /\ pc' = "crashed"
    /\ UNCHANGED <<Inputs, hashOrder, df, image_lookup, maps, Structures, counters,
                   correct, schemas, output, runs, firstRun>>

\* quizzes_df = build_quizzes_df(df, quiz_map, collection_key=list(col_map.values())[0])
BuildQuizzes ==
    /\ pc = "quizzes"
    /\ quizzes_df' = build_quizzes_df(df, maps.quizzes, maps.cols[1].v, hashOrder)
    /\ pc' = "questions"
    /\ UNCHANGED <<Inputs, hashOrder, df, image_lookup, maps, cats_df, cols_df,
                   q_rows, o_rows, counters, correct, schemas, output, runs, firstRun>>

\* questions_df, options_df = build_questions_and_options(df, quiz_map, image_lookup)
BuildQuestionsAndOptions ==
    /\ pc = "questions"
    /\ \E built \in {build_questions_and_options(df, maps.quizzes, image_lookup)} :
          /\ q_rows' = built.q_rows
          /\ o_rows' = built.o_rows
          /\ counters' = built.counters
          /\ correct' = built.correct
    /\ pc' = "schemas"
    /\ UNCHANGED <<Inputs, hashOrder, df, image_lookup, maps, cats_df, cols_df, quizzes_df,
                   schemas, output, runs, firstRun>>

\* 4. schemas = read_template_schemas(Path(args.template))
ReadTemplateSchemas ==
    /\ pc = "schemas"
    /\ template_readable(template)
    /\ schemas' = read_template_schemas(template)
    /\ pc' = "save"
    /\ UNCHANGED <<Inputs, hashOrder, df, image_lookup, maps, Structures, counters,
                   correct, output, runs, firstRun>>

\* pd.read_excel raises for a missing sheet: main ends before save_to_workbook
ReadTemplateSchemasFails ==
    /\ pc = "schemas"
    /\ ~template_readable(template)
    /\ pc' = "aborted"
    /\ UNCHANGED <<Inputs, hashOrder, df, image_lookup, maps, Structures, counters,
                   correct, schemas, output, runs, firstRun>>

\* save_to_workbook(Path(args.output), ...)
SaveToWorkbook ==
    /\ pc = "save"
    /\ output' = save_to_workbook(cats_df, cols_df, quizzes_df, q_rows, o_rows, schemas)
    /\ pc' = IF Len(schemas) = 5 THEN "done" ELSE "crashed"
    /\ UNCHANGED <<Inputs, hashOrder, df, image_lookup, maps, Structures, counters,
                   correct, schemas, runs, firstRun>>

Next ==
    \/ LoadAgentInput
    \/ LoadLookup
    \/ BuildKeyMaps
    \/ BuildCategories
    \/ BuildCollections
    \/ BuildCollectionsFails
    \/ BuildQuizzes
    \/ BuildQuestionsAndOptions
    \/ ReadTemplateSchemas
    \/ ReadTemplateSchemasFails
    \/ SaveToWorkbook

\* the program is started again on the same input, lookup and template: a new process,
\* with its own hash seed, that overwrites the output when it reaches the save
Rerun ==
    /\ pc = "done"
    /\ runs = 1
    /\ runs' = 2
    /\ firstRun' = Structures
    /\ hashOrder' \in HashOrders
    /\ pc' = "load"
    /\ df' = EmptyFrame
    /\ image_lookup' = <<>>
    /\ maps' = [cats |-> <<>>, cols |-> <<>>, quizzes |-> <<>>]
    /\ cats_df' = <<>> /\ cols_df' = <<>> /\ quizzes_df' = <<>>
    /\ q_rows' = <<>> /\ o_rows' = <<>> /\ counters' = <<>>
    /\ correct' = {}
    /\ schemas' = <<>>
    /\ UNCHANGED <<Inputs, output>>

NextRerun == Next \/ Rerun

\* df = normalize_columns(df), the first step of load_agent_input, on its own
NormalizeColumns ==
    /\ pc = "load"
    /\ df' = normalize_columns(raw)
    /\ pc' = "normalized"
    /\ UNCHANGED <<Inputs, hashOrder, image_lookup, maps, Structures, counters,
                   correct, schemas, output, runs, firstRun>>

-----------------------------------------------------------------------------
(* Inputs *)

\* a DataFrame with a RangeIndex, from its column labels and the cells of its rows
MkFrame(columns, cells) ==
    [columns |-> columns,
     rows |-> [i \in 1..Len(cells) |-> [index |-> i - 1, cells |-> cells[i]]]]

\* the sequences over S of length lo..hi
SeqsOf(S, lo, hi) == UNION {[1..n -> S] : n \in lo..hi}

\* a template whose sheets carry the columns the builders emit
FULL_TEMPLATE ==
    << [name |-> "Categories",  columns |-> << "CategoryKey", "Name", "Description" >>],
       [name |-> "Collections", columns |-> << "CollectionKey", "Name", "Description",
                    "LearningOutcome", "IsPublic", "CategoryKey", "CoverImage" >>],
       [name |-> "Quizzes",     columns |-> << "QuizKey", "CollectionKey", "Title", "Description",
                    "PassMark", "Difficulty", "isPublic", "Status", "Tags" >>],
       [name |-> "Questions",   columns |-> << "QuestionKey", "QuizKey", "Type", "Text", "Points",
                    "Explanation", "Hints", "MediaURL", "OrderIndex", "ThresholdKeywords" >>],
       [name |-> "Options",     columns |-> << "OptionKey", "QuestionKey", "Text", "IsCorrect",
                    "OrderIndex", "CorrectOrder", "Meta" >>] >>

\* template without the sheet called name
WithoutSheet(book, name) == SelectSeq(book, LAMBDA s : s.name # name)

\* template whose sheet called name lacks the column col
WithoutColumn(book, name, col) ==
    [n \in 1..Len(book) |->
        IF book[n].name = name
        THEN [book[n] EXCEPT !.columns = SelectSeq(@, LAMBDA c : c # col)]
        ELSE book[n]]

NO_LOOKUP == [kind |-> "absent", map |-> <<>>]
BAD_LOOKUP == [kind |-> "unreadable", map |-> <<>>]
LookupOf(m) == [kind |-> "dict", map |-> m]

NOT_WRITTEN == <<>>

\* the start of a first run of the program on the input d, the lookup file lk and the
\* template tp, in a process that iterates ROLE_HINT_WORDS in the order o
StartOn(d, lk, tp, o) ==
    /\ raw = d
    /\ lookupFile = lk
    /\ template = tp
    /\ hashOrder = o
    /\ pc = "load"
    /\ df = EmptyFrame
    /\ image_lookup = <<>>
    /\ maps = [cats |-> <<>>, cols |-> <<>>, quizzes |-> <<>>]
    /\ cats_df = <<>> /\ cols_df = <<>> /\ quizzes_df = <<>>
    /\ q_rows = <<>> /\ o_rows = <<>> /\ counters = <<>>
    /\ correct = {}
    /\ schemas = <<>>
    /\ output = NOT_WRITTEN
    /\ runs = 1
    /\ firstRun = <<>>

-----------------------------------------------------------------------------
(* The runs that are checked: input tables, lookup files and templates *)

MaxRows == 3
BatchRows == 92
MaxTokens == 3
MaxHeaders == 3
LongRows == 1001

\* a row of a table with the columns Quiz and difficulty
ROW_KINDS ==
    { << Str(<<"Q","u","i","z"," ","A">>),  Str(<<"l","o","w">>) >>,  << Str(<<"Q","u","i","z"," ","A">>), Str(<<"H","i","g","h">>) >>,
      << Str(<<"q","u","i","z","-","a">>),  Str(<<"l","o","w">>) >>,  << Str(<<"Q","u","i","z"," ","A"," ">>), NoneV >>,
      << NoneV,          Str(<<"H","i","g","h">>) >>, << NoneV, Str(<<"e","a","s","y">>) >> }

\* tables of quizzes whose names collide or are missing, with the difficulty of each row
TableFrames ==
    { MkFrame(<< <<"Q","u","i","z">>, <<"d","i","f","f","i","c","u","l","t","y">> >>, rows) : rows \in SeqsOf(ROW_KINDS, 1, MaxRows) }

GROUP_NAMES == { Str(<<"A","z","u","r","e"," ","D","a","t","a">>), Str(<<"a","z","u","r","e"," "," ","d","a","t","a","!">>), NaN }

\* two-row tables with a category and a collection per row
GroupFrames ==
    { MkFrame(<< <<"C","a","t","e","g","o","r","y">>, <<"C","o","l","l","e","c","t","i","o","n">> >>, << <<g[1], g[2]>>, <<g[3], g[4]>> >>) :
        g \in [1..4 -> GROUP_NAMES] }

KeyRuns == (TableFrames \cup GroupFrames) \X {NO_LOOKUP} \X {FULL_TEMPLATE} \X {WRITTEN_ORDER}

\* one question, with or without an image flag, and a lookup file that may hold its text
FLAGS == { Bool(TRUE), Bool(FALSE), Str(<<"1">>), Str(<<"Y","e","s">>), NoneV }
LOOKUPS == { NO_LOOKUP, BAD_LOOKUP, LookupOf(<< [k |-> <<"q","1">>, v |-> <<"h","t","t","p",":","/","/","i","m","g","/","1",".","p","n","g">>] >>) }

MediaFrames ==
    { MkFrame(<< <<"Q","u","e","s","t","i","o","n">>, <<"h","a","s","_","i","m","a","g","e">> >>, << << Str(q), f >> >>) :
        q \in { <<"q","1">>, <<"q","2">> }, f \in FLAGS }

MediaRuns == MediaFrames \X LOOKUPS \X {FULL_TEMPLATE} \X {WRITTEN_ORDER}

\* one or two questions, each with its own names and a type that is or is not supported
TYPES == { Str(<<"H","o","t","s","p","o","t">>), Str(<<"d","r","a","g"," ","a","n","d"," ","d","r","o","p">>), Str(<<"A"," ","S","I","M","U","L","A","T","I","O","N">>),
           Str(<<"m","u","l","t","i","p","l","e","_","c","h","o","i","c","e">>), NoneV }

TypedRow(i, t) ==
    << Str(<<"q">> \o DecimalDigits(i)), t, Str(<<"A",")"," ","x",";"," ","B",")"," ","y">>), Str(<<"c","a","t">> \o DecimalDigits(i)),
       Str(<<"c","o","l">> \o DecimalDigits(i)), Str(<<"q","u","i","z">> \o DecimalDigits(i)) >>

TypeFrames ==
    { MkFrame(<< <<"Q","u","e","s","t","i","o","n">>, <<"Q","u","e","s","t","i","o","n","_","T","y","p","e">>, <<"O","p","t","i","o","n","s">>, <<"C","a","t","e","g","o","r","y">>, <<"C","o","l","l","e","c","t","i","o","n">>, <<"Q","u","i","z">> >>,
              [i \in 1..Len(ts) |-> TypedRow(i, ts[i])]) : ts \in SeqsOf(TYPES, 1, 2) }

TypeRuns == TypeFrames \X {NO_LOOKUP} \X {FULL_TEMPLATE} \X {WRITTEN_ORDER}

\* quizzes whose collection, title and questions yield many tags, some of them twice
TAG_TITLES == { <<"A","Z","-","1","0","4"," ","S","e","c","u","r","i","t","y"," ","E","n","g","i","n","e","e","r"," ","-"," ","A","z","u","r","e">>, <<"A","d","m","i","n">> }
TAG_COLLECTIONS == { <<"M","i","c","r","o","s","o","f","t"," ","A","z","u","r","e"," ","D","a","t","a"," ","&"," ","A","I">>, <<"a","z","-","1","0","4">> }
TAG_QUESTIONS == { <<"U","s","e"," ","R","B","A","C"," ","a","n","d"," ","M","F","A"," ","w","i","t","h"," ","a"," ","p","o","l","i","c","y"," ","o","n"," ","t","h","e"," ","b","l","o","b"," ","o","f"," ","e","a","c","h"," ","V","M"," ","i","n"," ","A","K","S">>, <<"v","n","e","t"," ","p","e","e","r","i","n","g">> }

TagFrames ==
    { MkFrame(<< <<"Q","u","i","z">>, <<"C","o","l","l","e","c","t","i","o","n">>, <<"Q","u","e","s","t","i","o","n">> >>,
              [i \in 1..Len(qs) |-> << Str(t), Str(c), Str(qs[i]) >>]) :
        t \in TAG_TITLES, c \in TAG_COLLECTIONS, qs \in SeqsOf(TAG_QUESTIONS, 1, 2) }

TagRuns == TagFrames \X {NO_LOOKUP} \X {FULL_TEMPLATE} \X HashOrders

\* a multiple_answer question with three options and a Correct Options text
ANSWER_TOKENS == { <<"A",")">>, <<"c",")">>, <<"K",")">>, <<";"," ">>, <<";">>, <<" ">> }

RECURSIVE Flatten(_)
Flatten(parts) == IF parts = <<>> THEN <<>> ELSE parts[1] \o Flatten(Tail(parts))

AnswerTexts ==
    { Flatten(ts) : ts \in SeqsOf(ANSWER_TOKENS, 1, MaxTokens) } \cup { <<"A",")",";"," ","C",")",";"," ","E",")">> }

AnswerFrames ==
    { MkFrame(<< <<"Q","u","e","s","t","i","o","n","_","T","y","p","e">>, <<"O","p","t","i","o","n","s">>, <<"C","o","r","r","e","c","t"," ","O","p","t","i","o","n","s">> >>,
              << << Str(<<"m","u","l","t","i","p","l","e","_","a","n","s","w","e","r">>), Str(<<"A",")"," ","x",";"," ","B",")"," ","y",";"," ","C",")"," ","z">>), Str(a) >> >>) :
        a \in AnswerTexts }

AnswerRuns == AnswerFrames \X {NO_LOOKUP} \X {FULL_TEMPLATE} \X {WRITTEN_ORDER}

\* templates that lack a sheet or a column
TEMPLATES ==
    { WithoutSheet(FULL_TEMPLATE, NEEDED_SHEETS[n]) : n \in 1..5 }
    \cup { WithoutColumn(FULL_TEMPLATE, "Questions", "MediaURL"),
           WithoutColumn(FULL_TEMPLATE, "Options", "IsCorrect") }

TemplateRuns ==
    { MkFrame(<< <<"Q","u","e","s","t","i","o","n">>, <<"O","p","t","i","o","n","s">> >>, << << Str(<<"q">>), Str(<<"y","e","s",";"," ","n","o">>) >> >>) }
    \X {NO_LOOKUP} \X TEMPLATES \X {WRITTEN_ORDER}

\* one question whose image flag is a text or a missing value
FLAG_TEXTS == { Str(<<" ","T","R","U","E"," ">>), Str(<<"y">>), Str(<<"y","e","s">>), Str(<<"n","o">>), Str(<<"0">>), Str(<<>>), NaN }

FlagFrames ==
    { MkFrame(<< <<"Q","u","e","s","t","i","o","n">>, <<"h","a","s","_","i","m","a","g","e">> >>, << << Str(q), f >> >>) :
        q \in { <<"q","1">>, <<"q","2">> }, f \in FLAG_TEXTS }

FlagRuns == FlagFrames \X LOOKUPS \X {FULL_TEMPLATE} \X {WRITTEN_ORDER}

\* tables of BatchRows rows, more than two batches: the rows at the positions of blanks
\* have the Quiz cell blank, the others name a quiz; the first row has the type first
BLANK_ROWS == { {}, {46}, {2, 46, 47, 92} }

BatchFrames ==
    { MkFrame(<< <<"Q","u","i","z">>, <<"Q","u","e","s","t","i","o","n","_","T","y","p","e">> >>,
              [i \in 1..BatchRows |->
                  << IF i \in blanks THEN blank ELSE Str(<<"Q","u","i","z"," ","A">>),
                     IF i = 1 THEN first ELSE Str(<<"m","u","l","t","i","p","l","e","_","c","h","o","i","c","e">>) >>]) :
        blanks \in BLANK_ROWS, blank \in { NoneV, Str(<<" "," ">>) },
        first \in { Str(<<"H","o","t","s","p","o","t">>), NoneV } }

BatchRuns == BatchFrames \X {NO_LOOKUP} \X {FULL_TEMPLATE} \X {WRITTEN_ORDER}

\* one row whose category and collection names are plain, blank or without a letter
NAME_TEXTS == { Str(<<"m","i","c","r","o","s","o","f","t">>), Str(<<"A","z","u","r","e"," ","A","D"," ","&"," ","G","o","v","e","r","n","a","n","c","e">>), Str(<<>>), Str(<<" "," ">>), Str(<<"!","?">>) }

NameFrames ==
    { MkFrame(<< <<"C","a","t","e","g","o","r","y">>, <<"C","o","l","l","e","c","t","i","o","n">> >>, << << a, b >> >>) : a, b \in NAME_TEXTS }

NameRuns == NameFrames \X {NO_LOOKUP} \X {FULL_TEMPLATE} \X {WRITTEN_ORDER}

Init ==
    \E run \in KeyRuns \cup MediaRuns \cup TypeRuns \cup TagRuns \cup AnswerRuns \cup TemplateRuns
                \cup FlagRuns \cup BatchRuns \cup NameRuns :
        StartOn(run[1], run[2], run[3], run[4])

Spec == Init /\ [][Next]_vars

\* runs that are started a second time
InitRerun ==
    \E run \in TagRuns \cup TypeRuns \cup TemplateRuns : StartOn(run[1], run[2], run[3], run[4])

SpecRerun == InitRerun /\ [][NextRerun]_vars

\* a long table: LongRows rows of one quiz, but for a second title with the same key
\* on row 2 and a row without a quiz on row 3
LongFrame ==
    MkFrame(<< <<"Q","u","i","z">> >>,
            [i \in 1..LongRows |->
                << IF i = 2 THEN Str(<<"q","u","i","z","-","a">>) ELSE IF i = 3 THEN NoneV ELSE Str(<<"Q","u","i","z"," ","A">>) >>])

InitLong ==
    \E run \in ({LongFrame} \X {NO_LOOKUP} \X {FULL_TEMPLATE} \X {WRITTEN_ORDER})
               \cup TypeRuns \cup TemplateRuns :
        StartOn(run[1], run[2], run[3], run[4])

SpecLong == InitLong /\ [][Next]_vars

\* tables with any headers, for normalize_columns alone
HEADERS == { <<"T","a","g">>, <<"T","a","g","s">>, <<"q","u","e","s","t","i","o","n">>, <<"N","o","t","e","s">>, <<"H","a","s"," ","I","m","a","g","e">>, <<"A","n","s","w","e","r","s">> }

HeaderFrames ==
    { MkFrame(hs, << [i \in 1..Len(hs) |-> Str(<<"x">>)] >>) :
        hs \in { h \in SeqsOf(HEADERS, 1, MaxHeaders) :
                   \A p, q \in 1..Len(h) : h[p] = h[q] => p = q } }

InitColumns ==
    \E d \in HeaderFrames : StartOn(d, NO_LOOKUP, FULL_TEMPLATE, WRITTEN_ORDER)

SpecColumns == InitColumns /\ [][NormalizeColumns]_vars

-----------------------------------------------------------------------------
(* Properties *)

\* the positions of the records of table whose field carries key
Carrying(table, field, key) == {n \in 1..Len(table) : table[n][field] = key}

(***************************************************************************)
(* C1  Referential closure: after a full run every Question's QuizKey is   *)
(* the QuizKey of exactly one Quiz record, whose CollectionKey is the      *)
(* CollectionKey of exactly one Collection record, whose CategoryKey is    *)
(* the CategoryKey of exactly one Category record.                         *)
(***************************************************************************)
ReferentialClosure ==
    pc = "done" =>
        \A i \in 1..Len(q_rows) :
            /\ Cardinality(Carrying(quizzes_df, "QuizKey", q_rows[i].QuizKey)) = 1
            /\ \A n \in Carrying(quizzes_df, "QuizKey", q_rows[i].QuizKey) :
                /\ Cardinality(Carrying(cols_df, "CollectionKey", quizzes_df[n].CollectionKey)) = 1
                /\ \A m \in Carrying(cols_df, "CollectionKey", quizzes_df[n].CollectionKey) :
                    Cardinality(Carrying(cats_df, "CategoryKey", cols_df[m].CategoryKey)) = 1

\* the keys and the tag strings of the tables s, in order
Assignments(s) ==
    << [n \in 1..Len(s[1]) |-> s[1][n].CategoryKey],
       [n \in 1..Len(s[2]) |-> s[2][n].CollectionKey],
       [n \in 1..Len(s[3]) |-> <<s[3][n].QuizKey, s[3][n].Tags>>],
       [n \in 1..Len(s[4]) |-> s[4][n].QuestionKey],
       [n \in 1..Len(s[5]) |-> s[5][n].OptionKey] >>

(***************************************************************************)
(* C2  Determinism: a second run on the same input table and lookup map    *)
(* ends with the same CategoryKey, CollectionKey, QuizKey, QuestionKey and *)
(* OptionKey assignments and the same Tags string for every quiz as the    *)
(* first run, whatever order the set ROLE_HINT_WORDS iterates in.          *)
(***************************************************************************)
SameOnRerun ==
    (runs = 2 /\ pc = "done") => Assignments(Structures) = Assignments(firstRun)

(***************************************************************************)
(* C3  Image merge precedence: the MediaURL of every Question is the URL   *)
(* the lookup map holds for its exact text, whatever has_image is; without *)
(* such an entry it is "1" when has_image is true and "" otherwise.        *)
(***************************************************************************)
MediaPrecedence ==
    \A n \in 1..Len(q_rows) :
        q_rows[n].MediaURL =
            IF \E m \in 1..Len(image_lookup) : image_lookup[m].k = q_rows[n].Text
            THEN image_lookup[CHOOSE m \in 1..Len(image_lookup) :
                                  image_lookup[m].k = q_rows[n].Text].v
            ELSE IF Cell(df, df.rows[n], <<"h","a","s","_","i","m","a","g","e">>) = Bool(TRUE) THEN <<"1">>
            ELSE <<>>

\* a flagged question whose text is in the lookup map carries the URL
MediaFromLookup ==
    \E n \in 1..Len(q_rows) :
        /\ Cell(df, df.rows[n], <<"h","a","s","_","i","m","a","g","e">>) = Bool(TRUE)
        /\ \E m \in 1..Len(image_lookup) :
              image_lookup[m].k = q_rows[n].Text /\ q_rows[n].MediaURL = image_lookup[m].v

\* the cell of row i of the input under the header name, None without such a header
RawValue(i, name) ==
    IF \E p \in 1..Len(raw.columns) : raw.columns[p] = name
    THEN raw.rows[i].cells[CHOOSE p \in 1..Len(raw.columns) : raw.columns[p] = name]
    ELSE NoneV

\* row i of the input names a question type that holds hotspot, drag or simulation
Unsupported(i) ==
    \E w \in { <<"h","o","t","s","p","o","t">>, <<"d","r","a","g">>, <<"s","i","m","u","l","a","t","i","o","n">> } :
        \E p \in 1..Len(str(RawValue(i, <<"Q","u","e","s","t","i","o","n","_","T","y","p","e">>))) :
            LitAt(w, Lower(str(RawValue(i, <<"Q","u","e","s","t","i","o","n","_","T","y","p","e">>))), p)

\* the positions of the supported rows of the input, in order
Supported == SelectSeq([i \in 1..Len(raw.rows) |-> i], LAMBDA i : ~Unsupported(i))

\* the title of the quiz of the j-th supported row
TitleOf(kept, j) ==
    IF RawValue(kept[j], <<"Q","u","i","z">>) \in {NoneV, NaN} \/ Strip(str(RawValue(kept[j], <<"Q","u","i","z">>))) = <<>>
    THEN <<"B","a","t","c","h"," ">> \o DecimalDigits(((j - 1) \div 45) + 1)
    ELSE str(RawValue(kept[j], <<"Q","u","i","z">>))

\* the value of the input cell v, dflt when it is missing
Filled(v, dflt) == IF v \in {NoneV, NaN} THEN dflt ELSE str(v)

\* every record of the tables stems from one of the rows kept
StemFrom(kept) ==
    /\ Len(q_rows) <= Len(kept)
    /\ \A n \in 1..Len(q_rows) : q_rows[n].Text = str(RawValue(kept[n], <<"Q","u","e","s","t","i","o","n">>))
    /\ \A o \in 1..Len(o_rows) : \E n \in 1..Len(q_rows) :
          o_rows[o].QuestionKey = q_rows[n].QuestionKey
    /\ \A n \in 1..Len(cats_df) : \E j \in 1..Len(kept) :
          cats_df[n].Name = Strip(Upper(Filled(RawValue(kept[j], <<"C","a","t","e","g","o","r","y">>), <<"M","I","C","R","O","S","O","F","T">>)))
    /\ \A n \in 1..Len(cols_df) : \E j \in 1..Len(kept) :
          cols_df[n].Name = Strip(Filled(RawValue(kept[j], <<"C","o","l","l","e","c","t","i","o","n">>), <<"M","i","c","r","o","s","o","f","t"," ","A","z","u","r","e">>))
    /\ \A n \in 1..Len(quizzes_df) : \E j \in 1..Len(kept) :
          quizzes_df[n].Title = TitleOf(kept, j)

(***************************************************************************)
(* C4  Exclusion of unsupported rows: a row whose Question_Type contains   *)
(* hotspot, drag or simulation (in any case) yields no Question and no     *)
(* Option, and every Category, Collection and Quiz record bears a name     *)
(* that occurs on a row that is not such a row.                            *)
(***************************************************************************)
UnsupportedRowsExcluded ==
    /\ StemFrom(Supported)
    /\ pc = "done" => Len(q_rows) = Len(Supported)

\* a run that ended on a table with a supported and an unsupported row
MixedTableDone ==
    /\ pc = "done"
    /\ Len(raw.rows) = 2
    /\ Unsupported(1) /\ ~Unsupported(2)
    /\ Len(q_rows) = 1 /\ Len(cats_df) = 1 /\ Len(cols_df) = 1 /\ Len(quizzes_df) = 1
    /\ Len(o_rows) = 2

(***************************************************************************)
(* C5  The Tags field of every quiz holds at most 8 tags and no tag twice. *)
(***************************************************************************)
TagsBounded ==
    \A n \in 1..Len(quizzes_df) :
        /\ Len(Runs(quizzes_df[n].Tags, TAG_CHARS)) <= 8
        /\ \A a, b \in 1..Len(Runs(quizzes_df[n].Tags, TAG_CHARS)) :
              Runs(quizzes_df[n].Tags, TAG_CHARS)[a] = Runs(quizzes_df[n].Tags, TAG_CHARS)[b]
              => a = b

\* a quiz whose Tags field is full, one of the tags being a word its sources hold twice
TagsTruncated ==
    \E n \in 1..Len(quizzes_df) :
        /\ Len(Runs(quizzes_df[n].Tags, TAG_CHARS)) = 8
        /\ <<"a","z","u","r","e">> \in Range(Runs(quizzes_df[n].Tags, TAG_CHARS))
        /\ <<"a","z","-","1","0","4">> \in Range(Runs(quizzes_df[n].Tags, TAG_CHARS))

\* the Correct Options text of the row of the last question, stripped
LastCorrectText == Strip(str(Cell(df, df.rows[Len(q_rows)], <<"C","o","r","r","e","c","t"," ","O","p","t","i","o","n","s">>)))

\* position j of s holds one of the letters A-J, a-j and position j + 1 holds ")"
Marker(s, j) == j < Len(s) /\ s[j] \in LetterAJ /\ s[j + 1] = ")"

\* the letters of s with a ")" after them that stand at the start of s or after a ";"
\* and any white space
LettersAfterSemicolon(s) ==
    { ToUpper(s[j]) : j \in { j \in 1..Len(s) :
        /\ Marker(s, j)
        /\ \/ j = 1
           \/ \E i \in 1..(j - 1) : s[i] = ";" /\ \A m \in (i + 1)..(j - 1) : s[m] \in SpaceSet } }

\* the letters of s with a ")" after them that stand at the start of s or right after "; "
LettersAfterSemicolonSpace(s) ==
    { ToUpper(s[j]) : j \in { j \in 1..Len(s) :
        /\ Marker(s, j)
        /\ \/ j = 1
           \/ j >= 3 /\ s[j - 2] = ";" /\ s[j - 1] = " " } }

\* the options of the last question are flagged by the letters of the set letters
LastOptionsFlagged(letters) ==
    \A o \in 1..Len(o_rows) :
        o_rows[o].QuestionKey = q_rows[Len(q_rows)].QuestionKey
        => o_rows[o].IsCorrect = (UpperChars[o_rows[o].OrderIndex] \in letters)

(***************************************************************************)
(* C6  For a question of type multiple_answer the correct letters are the  *)
(* letters A-J (in either case, taken as capitals) of the stripped Correct *)
(* Options text that are followed by ")" and stand at its start or after a *)
(* ";" and any white space, none included; option i is flagged IsCorrect   *)
(* exactly when the i-th letter of the alphabet is one of them.            *)
(***************************************************************************)
MultipleAnswerLetters ==
    (Len(q_rows) > 0 /\ q_rows[Len(q_rows)].Type = <<"m","u","l","t","i","p","l","e","_","a","n","s","w","e","r">>) =>
        /\ correct = LettersAfterSemicolon(LastCorrectText)
        /\ LastOptionsFlagged(LettersAfterSemicolon(LastCorrectText))

\* C6 as stated: only a letter at the start or right after "; " counts
MultipleAnswerLettersAfterSpace ==
    (Len(q_rows) > 0 /\ q_rows[Len(q_rows)].Type = <<"m","u","l","t","i","p","l","e","_","a","n","s","w","e","r">>) =>
        /\ correct = LettersAfterSemicolonSpace(LastCorrectText)
        /\ LastOptionsFlagged(LettersAfterSemicolonSpace(LastCorrectText))

\* a multiple_answer question with two correct options, the second listed without a space
TwoLettersFound ==
    /\ Len(q_rows) > 0
    /\ q_rows[Len(q_rows)].Type = <<"m","u","l","t","i","p","l","e","_","a","n","s","w","e","r">>
    /\ LastCorrectText = <<"A",")",";","c",")">>
    /\ correct = {"A", "C"}
    /\ \E o \in 1..Len(o_rows) : o_rows[o].OrderIndex = 3 /\ o_rows[o].IsCorrect

\* n written with three digits
ThreeDigits(n) ==
    << DigitChars[((n \div 100) % 10) + 1], DigitChars[((n \div 10) % 10) + 1],
       DigitChars[(n % 10) + 1] >>

\* Question n is the next of its quiz key, and its key ends in Number(OrderIndex)
NextOfItsQuiz(n, Number(_)) ==
    /\ q_rows[n].OrderIndex =
          1 + Cardinality({m \in 1..(n - 1) : q_rows[m].QuizKey = q_rows[n].QuizKey})
    /\ q_rows[n].QuestionKey = <<"Q","-">> \o q_rows[n].QuizKey \o <<"-">> \o Number(q_rows[n].OrderIndex)

(***************************************************************************)
(* C7  Question ordinals: the OrderIndex of every Question is one more     *)
(* than the number of Questions before it (in row order) with its QuizKey, *)
(* so that the Questions of a QuizKey are numbered 1, 2, ..., n; its       *)
(* QuestionKey is "Q-" + QuizKey + "-" + the OrderIndex in decimal, padded *)
(* with zeros to three digits, and with more digits from 1000 on.          *)
(***************************************************************************)
QuestionOrdinals ==
    \A n \in 1..Len(q_rows) :
        NextOfItsQuiz(n, LAMBDA i : IF i < 1000 THEN ThreeDigits(i) ELSE DecimalDigits(i))

\* C7 as stated: the OrderIndex is written with three digits
QuestionOrdinalsThreeDigits ==
    \A n \in 1..Len(q_rows) : NextOfItsQuiz(n, ThreeDigits)

\* rows of two quizzes interleaved, two titles sharing one key, and a four-digit ordinal
FourDigitOrdinal ==
    /\ Len(q_rows) = LongRows
    /\ q_rows[1].QuizKey = q_rows[2].QuizKey
    /\ q_rows[3].QuizKey # q_rows[2].QuizKey
    /\ q_rows[4].OrderIndex = 3
    /\ q_rows[LongRows].OrderIndex = 1000

\* the template lacks one of the five sheets
LacksSheet ==
    \E s \in { "Categories", "Collections", "Quizzes", "Questions", "Options" } :
        \A n \in 1..Len(template) : template[n].name # s

\* a sheet of the template lacks one of the columns the pipeline emits for it
LacksColumn ==
    \E n \in 1..Len(template) : \E m \in 1..Len(FULL_TEMPLATE) :
        /\ template[n].name = FULL_TEMPLATE[m].name
        /\ \E c \in Range(FULL_TEMPLATE[m].columns) : c \notin Range(template[n].columns)

(***************************************************************************)
(* C8  A template that lacks one of the five sheets is fatal: the run ends *)
(* before anything is written to the output.  A sheet that lacks a column  *)
(* is no error: what is written has the five sheets, each with exactly the *)
(* columns of the template's sheet.                                        *)
(***************************************************************************)
MissingSheetIsFatal ==
    /\ LacksSheet => output = NOT_WRITTEN
    /\ output # NOT_WRITTEN =>
          /\ Len(output) = 5
          /\ \A n \in 1..5 : \E m \in 1..Len(template) :
                /\ template[m].name = output[n].name
                /\ template[m].columns = output[n].table.columns

\* C8 as stated: a missing sheet and a missing column alike leave the output unwritten
SchemaMismatchIsFatal ==
    (LacksSheet \/ LacksColumn) => output = NOT_WRITTEN

\* a run that stopped at a template without the Options sheet, after building every table
AbortedBeforeWriting ==
    /\ pc = "aborted"
    /\ LacksSheet
    /\ q_rows # <<>>
    /\ output = NOT_WRITTEN

(***************************************************************************)
(* C9  normalize_columns returns, whatever the headers of the input, the   *)
(* 14 canonical columns, each once, in canonical order.                    *)
(***************************************************************************)
FourteenColumns ==
    pc = "normalized" => df.columns = EXPECTED_14_COLS

\* the number of rows of the quiz record n whose normalized difficulty is v
Occurrences(n, v) ==
    Cardinality({ i \in 1..Len(df.rows) :
        /\ str(Cell(df, df.rows[i], <<"Q","u","i","z">>)) = quizzes_df[n].Title
        /\ str(Cell(df, df.rows[i], <<"d","i","f","f","i","c","u","l","t","y">>)) = v })

\* v occurs more often than every other value among the rows of the quiz record n
StrictlyMost(n, v) ==
    \A u \in { <<"l","o","w">>, <<"m","e","d","i","u","m">>, <<"h","i","g","h">> } \ {v} : Occurrences(n, v) > Occurrences(n, u)

(***************************************************************************)
(* C10  The Difficulty of every Quiz record is the value that occurs       *)
(* strictly most often among the normalized difficulties of the quiz's     *)
(* rows, "medium" when no value does; it is one of low, medium, high.      *)
(***************************************************************************)
DifficultyIsStrictMode ==
    \A n \in 1..Len(quizzes_df) :
        /\ quizzes_df[n].Difficulty \in { <<"l","o","w">>, <<"m","e","d","i","u","m">>, <<"h","i","g","h">> }
        /\ \A v \in { <<"l","o","w">>, <<"m","e","d","i","u","m">>, <<"h","i","g","h">> } :
              StrictlyMost(n, v) => quizzes_df[n].Difficulty = v
        /\ (\A v \in { <<"l","o","w">>, <<"m","e","d","i","u","m">>, <<"h","i","g","h">> } : ~StrictlyMost(n, v))
              => quizzes_df[n].Difficulty = <<"m","e","d","i","u","m">>

\* a quiz with as many low as high rows (medium by the tie) next to one with a majority
TieAndMajority ==
    /\ \E n \in 1..Len(quizzes_df) :
          /\ Occurrences(n, <<"l","o","w">>) = 1 /\ Occurrences(n, <<"h","i","g","h">>) = 1
          /\ quizzes_df[n].Difficulty = <<"m","e","d","i","u","m">>
    /\ \E n \in 1..Len(quizzes_df) :
          /\ Occurrences(n, <<"h","i","g","h">>) = 1 /\ Occurrences(n, <<"l","o","w">>) = 0
          /\ quizzes_df[n].Difficulty = <<"h","i","g","h">>

\* the flag of the input cell v: false when it is missing, the value of a bool, and for
\* any other value whether its stripped, lower-cased text is one of words
FlagOf(v, words) ==
    IF v \in {NoneV, NaN} THEN FALSE
    ELSE IF v.t = "bool" THEN v.b
    ELSE Lower(Strip(v.s)) \in words

\* the has_image cell of every row kept is the flag of its input cell, and a question
\* whose text the lookup map lacks has the MediaURL "1" when flagged, "" when not
FlaggedBy(words) ==
    \A kept \in {Supported} :
        /\ Len(df.rows) <= Len(kept)
        /\ \A n \in 1..Len(df.rows) :
              Cell(df, df.rows[n], <<"h","a","s","_","i","m","a","g","e">>) =
                  Bool(FlagOf(RawValue(kept[n], <<"h","a","s","_","i","m","a","g","e">>), words))
        /\ \A n \in 1..Len(q_rows) :
              (\A m \in 1..Len(image_lookup) : image_lookup[m].k # q_rows[n].Text)
              => q_rows[n].MediaURL =
                    IF FlagOf(RawValue(kept[n], <<"h","a","s","_","i","m","a","g","e">>), words) THEN <<"1">> ELSE <<>>

(***************************************************************************)
(* C11  has_image normalization: a missing has_image becomes false, a bool *)
(* is passed through, and any other value becomes true exactly when its    *)
(* stripped, lower-cased text is "true", "1", "yes" or "y"; so a row with  *)
(* has_image "yes" or "y" whose Question text is not in the lookup map     *)
(* gets the MediaURL "1".                                                  *)
(***************************************************************************)
HasImageNormalized == FlaggedBy({ <<"t","r","u","e">>, <<"1">>, <<"y","e","s">>, <<"y">> })

\* C11 as stated: only "true" and "1" make the flag true
HasImageTrueOrOne == FlaggedBy({ <<"t","r","u","e">>, <<"1">> })

\* a question flagged by the text "yes", not in the lookup map, with the MediaURL "1"
FlaggedByYes ==
    /\ pc = "done"
    /\ Len(q_rows) = 1
    /\ RawValue(1, <<"h","a","s","_","i","m","a","g","e">>) = Str(<<"y","e","s">>)
    /\ image_lookup # <<>>
    /\ \A m \in 1..Len(image_lookup) : image_lookup[m].k # q_rows[1].Text
    /\ q_rows[1].MediaURL = <<"1">>

\* the Quiz cell of the input row i is missing or blank
BlankQuiz(i) ==
    RawValue(i, <<"Q","u","i","z">>) \in {NoneV, NaN} \/ Strip(str(RawValue(i, <<"Q","u","i","z">>))) = <<>>

\* the table the batch stage receives: the rows kept, with their fields normalized
Normalized == ensure_required_metadata(drop_unsupported(normalize_columns(raw)))

\* the Quiz cell of row n of df
QuizOf(n) == Cell(df, df.rows[n], <<"Q","u","i","z">>)

\* df is the table norm, whose rows stem from the input rows kept, but for the Quiz
\* cells: a blank one holds the batch of its position, the others hold their value
BatchStage(norm, kept) ==
    /\ Len(df.rows) = Len(kept)
    /\ Len(df.rows) = Len(norm.rows)
    /\ df.columns = norm.columns
    /\ \A n \in 1..Len(df.rows) :
          /\ QuizOf(n) = IF BlankQuiz(kept[n])
                         THEN Str(<<"B","a","t","c","h"," ">> \o DecimalDigits(1 + ((n - 1) \div 45)))
                         ELSE RawValue(kept[n], <<"Q","u","i","z">>)
          /\ ~ (isna(QuizOf(n)) \/ Strip(str(QuizOf(n))) = <<>>)
          /\ df.rows[n].index = norm.rows[n].index
          /\ \A p \in 1..Len(df.columns) :
                df.columns[p] # <<"Q","u","i","z">> => df.rows[n].cells[p] = norm.rows[n].cells[p]

(***************************************************************************)
(* C12  Batch assignment: a row whose Quiz is missing or blank gets        *)
(* "Batch " + (1 + floor(i / 45)), i being its 0-based position among all  *)
(* the rows of the normalized table (the rows kept, blank or not); a row   *)
(* with a non-blank Quiz keeps its value; nothing else changes, so a table *)
(* without a blank Quiz passes through unchanged; afterwards no row has a  *)
(* missing or blank Quiz.  (Stated of df when load_agent_input returns; no  *)
(* later step of main assigns df.)                                         *)
(***************************************************************************)
BatchAssignment ==
    pc = "lookup" =>
        \A norm \in {Normalized} : \A kept \in {Supported} : BatchStage(norm, kept)

\* a table whose first row is dropped: the blank rows 46 and 47 of the input are the rows
\* 45 and 46 of the normalized table and fall into the batches 1 and 2, the last into 3
BatchesByPosition ==
    /\ pc = "done"
    /\ Len(raw.rows) = BatchRows
    /\ Unsupported(1)
    /\ BlankQuiz(46) /\ BlankQuiz(47) /\ ~BlankQuiz(45)
    /\ QuizOf(44) = Str(<<"Q","u","i","z"," ","A">>)
    /\ QuizOf(45) = Str(<<"B","a","t","c","h"," ","1">>)
    /\ QuizOf(46) = Str(<<"B","a","t","c","h"," ","2">>)
    /\ QuizOf(Len(df.rows)) = Str(<<"B","a","t","c","h"," ","3">>)

\* every key of the dict d is made of prefix and the slug of its name, and is the prefix
\* alone (the key dflt for a quiz) when the name is blank; none ends with "-"
KeysMadeOf(d, prefix, dflt) ==
    \A n \in 1..Len(d) :
        /\ d[n].v = IF d[n].k = <<>> THEN dflt ELSE prefix \o <<"-">> \o slugify(d[n].k)
        /\ d[n].v[Len(d[n].v)] # "-"

(***************************************************************************)
(* C13  make_key: the key of every category, collection and quiz name is   *)
(* prefix + "-" + slugify(name) when the name is not blank and the prefix  *)
(* alone when it is blank (empty or white space only; a blank quiz title   *)
(* stands for BATCH); no key ends with "-".                                *)
(***************************************************************************)
MakeKeyContract ==
    /\ KeysMadeOf(maps.cats, <<"C","A","T">>, <<"C","A","T">>)
    /\ KeysMadeOf(maps.cols, <<"C","O","L">>, <<"C","O","L">>)
    /\ KeysMadeOf(maps.quizzes, <<"Q","U","I","Z">>, <<"Q","U","I","Z","-","B","A","T","C","H">>)

=============================================================================
